---- MODULE Spec2Model ----
(***************************************************************************)
(* A model of chatty's incremental response filter.                        *)
(*                                                                         *)
(*   - the tag lexer: the streaming callback of Session.streamResponse     *)
(*     (internal/chat.go), which receives the content increments of one    *)
(*     reply, detects <think>/<thinking> regions and writes to the         *)
(*     terminal;                                                           *)
(*   - the event decoder: Client.decodeStream (internal/client.go), which  *)
(*     reads the lines of a server-sent-event body and passes the content  *)
(*     increments to a callback;                                           *)
(*   - the session: Session.sendMessage (internal/chat.go), which keeps    *)
(*     the history and hands completed exchanges to the store;             *)
(*   - the TUI: tui.Model (internal/tui/model.go), which receives the      *)
(*     chunks of a stream over a channel and stores the reply;             *)
(*   - two invocations of streamResponse that run at the same time.        *)
(*                                                                         *)
(* SpecLexer feeds the callback a reply cut into chunks, Spec feeds it     *)
(* from decodeStream, SpecSession runs the requests of a session one       *)
(* after the other, SpecTUI runs the TUI, SpecPair the two invocations.    *)
(* SpecReject runs decodeStream with a callback that fails, SpecBuffered   *)
(* the buffered processStream beside it, SpecCache the response cache,     *)
(* SpecLimiter and SpecLocks the rate limiter and its lock.                *)
(*                                                                         *)
(* Text is a sequence of one-character strings.  Terminal escape           *)
(* sequences are modelled by the style they select; the padding that       *)
(* follows a padded write is a flag of the write.                          *)
(***************************************************************************)
EXTENDS Integers, Sequences, FiniteSets, TLC

\* ------------------------------------------------------------------ bounds

\* A response text is made of at most MaxSegs segments of Segments.
MaxSegs == 2
\* A response text is delivered in at most MaxChunks chunks.
MaxChunks == 3
\* A response body has at most MaxLines lines.
MaxLines == 3
\* A session sees at most MaxRequests calls of sendMessage.
MaxRequests == 2

\* A run has at most MaxCalls calls of Chat with a request that is repeated
\* and MaxFresh calls with a request that is made once.
MaxCalls == 3
MaxFresh == 2

\* The clock of the rate limiter runs from 0 to MaxTime.
MaxTime == 3

\* ------------------------------------------------------------- text helpers

\* s[:n] of Go, n counted from 0.
SliceTo(s, n) == SubSeq(s, 1, n)

\* s[n:] of Go, n counted from 0.
SliceFrom(s, n) == SubSeq(s, n + 1, Len(s))

\* p occurs in s at the 0-based offset i.
OccursAt(s, i, p) ==
    /\ i + Len(p) <= Len(s)
    /\ SubSeq(s, i + 1, i + Len(p)) = p

IsSuffix(p, s) ==
    /\ Len(p) <= Len(s)
    /\ SubSeq(s, Len(s) - Len(p) + 1, Len(s)) = p

Contains(s, p) == \E i \in 0..Len(s) : OccursAt(s, i, p)

SetMin(S) == CHOOSE x \in S : \A y \in S : x <= y

RECURSIVE Flatten(_)
Flatten(ss) == IF ss = << >> THEN << >> ELSE Head(ss) \o Flatten(Tail(ss))

\* ------------------------------------------------------------ tag patterns

OpenThinking == <<"<", "t", "h", "i", "n", "k", "i", "n", "g", ">">>
OpenThink == <<"<", "t", "h", "i", "n", "k", ">">>
CloseThinking == <<"<", "/", "t", "h", "i", "n", "k", "i", "n", "g", ">">>
CloseThink == <<"<", "/", "t", "h", "i", "n", "k", ">">>

\* (<thinking>)|(<think>): the alternatives in the order the pattern lists them.
thinkTagPattern == <<OpenThinking, OpenThink>>

\* (</thinking>)|(</think>)
thinkClosePattern == <<CloseThinking, CloseThink>>

\* The non-empty proper prefixes of the opening delimiters.
OpenPrefixes ==
    UNION {{SliceTo(d, n) : n \in 1..(Len(d) - 1)} :
           d \in {OpenThink, OpenThinking}}

\* The offsets at which an alternative of the pattern matches.
MatchStarts(pat, s) ==
    {i \in 0..Len(s) : \E k \in 1..Len(pat) : OccursAt(s, i, pat[k])}

\* regexp.MatchString
MatchString(pat, s) == MatchStarts(pat, s) # {}

\* regexp.FindStringIndex: the leftmost match, the first alternative that
\* matches there; <<start, end>> counted from 0, << >> for nil.
FindStringIndex(pat, s) ==
    IF MatchStarts(pat, s) = {} THEN << >>
    ELSE LET i == SetMin(MatchStarts(pat, s))
             k == SetMin({j \in 1..Len(pat) : OccursAt(s, i, pat[j])})
         IN  <<i, i + Len(pat[k])>>

\* ------------------------------------------------- the streaming callback

\* One write to the output sink: the text, the style the preceding escape
\* sequences select ("BrightWhite", "Magenta", "None" for the terminal's
\* default, "Loading" for the progress indicator), and whether the write is
\* followed by padding to the content width, a reset and a line break.
Span(sty, txt, pad) == [style |-> sty, text |-> txt, pad |-> pad]

\* fmt.Fprint(s.output, ...) under style sty; a padded write ends with ui.Reset.
Emit(st, sty, txt, pad) ==
    [st EXCEPT !.output = Append(@, Span(sty, txt, pad)),
               !.style = IF pad \/ sty = "Loading" THEN "None" ELSE sty]

\* The style a write gets: the given one with colours, none without.
Styled(st, sty) == IF st.useColors THEN sty ELSE "None"

\* ui.CreateLoadingMessage("...", "Generating response...", frameCount)
LoadingMsg == <<"Generating response...">>

\* A variant of AccumulateFull: the chunk is recorded only on the path that
\* scans for tags, after the early return for text past the closing tag.
AccumulateFullLate(st, chunk) ==
    IF st.thinkingClosed THEN st
    ELSE [st EXCEPT !.fullResponse = @ \o chunk]

\* fullResponse.WriteString(chunk)
AccumulateFull(st, chunk) == [st EXCEPT !.fullResponse = @ \o chunk]

\* The loading animation: every third frame until thinking has started.
Animate(st) ==
    IF ~st.thinkingStarted /\ ~st.inThinking
    THEN LET s1 == [st EXCEPT !.frameCount = (@ + 1) % 10]
         IN  IF s1.frameCount % 3 = 0
             THEN Emit(s1, "Loading", LoadingMsg, s1.useColors)
             ELSE s1
    ELSE st

\* A variant of ClosedBranch: the chunk is streamed and not collected.
ClosedBranchNoCollect(st, chunk) == Emit(st, st.style, chunk, FALSE)

\* Past the thinking tags: collect the chunk and stream it.
ClosedBranch(st, chunk) ==
    LET s1 == [st EXCEPT !.afterThinkingContent = @ \o chunk]
    IN  IF s1.useColors /\ Len(s1.afterThinkingContent) = Len(chunk)
        THEN Emit(s1, "BrightWhite", chunk, FALSE)
        ELSE Emit(s1, s1.style, chunk, FALSE)

\* beforeTag := bufferStr[:loc[0]]
BeforeTag(bufferStr, loc) == SliceTo(bufferStr, loc[1])

\* afterTag := bufferStr[loc[0]:] (the opening tag and all that follows it)
FromOpenTag(bufferStr, loc) == SliceFrom(bufferStr, loc[1])

\* An opening tag in the buffer: switch to thinking mode.
OpenBranch(st, bufferStr) ==
    LET loc == FindStringIndex(thinkTagPattern, bufferStr)
        beforeTag == BeforeTag(bufferStr, loc)
        s1 == IF beforeTag # << >> /\ ~st.thinkingStarted
              THEN Emit(st, Styled(st, "BrightWhite"), beforeTag, st.useColors)
              ELSE st
        s2 == [s1 EXCEPT !.inThinking = TRUE,
                         !.thinkingStarted = TRUE,
                         !.modes = Append(@, "Reasoning"),
                         !.style = Styled(s1, "Magenta")]
        s3 == Emit(s2, Styled(s2, "Magenta"), FromOpenTag(bufferStr, loc),
                   s2.useColors)
    IN  [s3 EXCEPT !.buffer = << >>]

\* upToAndIncludingTag := bufferStr[:loc[1]]
UpToAndIncludingTag(bufferStr, loc) == SliceTo(bufferStr, loc[2])

\* A variant of AfterCloseTag: the other side of the slice.
AfterCloseTagWrongSide(bufferStr, loc) == SliceTo(bufferStr, loc[2])

\* afterTag := bufferStr[loc[1]:]
AfterCloseTag(bufferStr, loc) == SliceFrom(bufferStr, loc[2])

\* A variant of CloseBranch: the thinking flag is left set.
CloseBranchStillThinking(st, bufferStr) ==
    LET loc == FindStringIndex(thinkClosePattern, bufferStr)
        s1 == Emit(st, Styled(st, "Magenta"),
                   UpToAndIncludingTag(bufferStr, loc), st.useColors)
        s2 == [s1 EXCEPT !.thinkingClosed = TRUE,
                         !.modes = Append(@, "Normal"),
                         !.style = "None"]
        afterTag == AfterCloseTag(bufferStr, loc)
        s3 == IF afterTag # << >>
              THEN Emit([s2 EXCEPT !.afterThinkingContent = @ \o afterTag],
                        Styled(s2, "BrightWhite"), afterTag, s2.useColors)
              ELSE s2
    IN  [s3 EXCEPT !.buffer = << >>]

\* A closing tag in the buffer while thinking: switch back to normal mode.
CloseBranch(st, bufferStr) ==
    LET loc == FindStringIndex(thinkClosePattern, bufferStr)
        s1 == Emit(st, Styled(st, "Magenta"),
                   UpToAndIncludingTag(bufferStr, loc), st.useColors)
        s2 == [s1 EXCEPT !.inThinking = FALSE,
                         !.thinkingClosed = TRUE,
                         !.modes = Append(@, "Normal"),
                         !.style = "None"]
        afterTag == AfterCloseTag(bufferStr, loc)
        s3 == IF afterTag # << >>
              THEN Emit([s2 EXCEPT !.afterThinkingContent = @ \o afterTag],
                        Styled(s2, "BrightWhite"), afterTag, s2.useColors)
              ELSE s2
    IN  [s3 EXCEPT !.buffer = << >>]

\* The longest suffix of s that is a proper prefix of an opening delimiter.
HeldBack(s) ==
    LET ns == {n \in 1..Len(s) : SliceFrom(s, Len(s) - n) \in OpenPrefixes}
    IN  IF ns = {} THEN << >>
        ELSE SliceFrom(s, Len(s) - (CHOOSE n \in ns : \A m \in ns : m <= n))

\* A variant of NormalBranch: the end of a chunk that may begin an opening
\* delimiter is kept in the buffer and not printed.
NormalBranchWithhold(st, chunk) ==
    [Emit(st, st.style, SliceTo(chunk, Len(chunk) - Len(HeldBack(chunk))),
          FALSE)
     EXCEPT !.buffer = HeldBack(chunk)]

\* Normal streaming: print the chunk as it comes and keep it as the buffer.
NormalBranch(st, chunk) ==
    LET s1 == IF ~st.thinkingStarted /\ ~st.inThinking
              THEN IF st.useColors
                   THEN [(IF Len(st.fullResponse) = Len(chunk)
                          THEN Emit(st, "BrightWhite", chunk, FALSE)
                          ELSE Emit(st, st.style, chunk, FALSE))
                         EXCEPT !.thinkingStarted = TRUE]
                   ELSE Emit(st, st.style, chunk, FALSE)
              ELSE Emit(st, st.style, chunk, FALSE)
    IN  [s1 EXCEPT !.buffer = chunk]

\* A variant of Callback: a closing tag is acted on in normal mode too.
CallbackAnyDelimiter(st, chunk) ==
    LET s1 == Animate(AccumulateFull(st, chunk))
    IN  IF s1.thinkingClosed THEN ClosedBranch(s1, chunk)
        ELSE LET bufferStr == s1.buffer \o chunk
             IN  IF ~s1.inThinking /\ MatchString(thinkTagPattern, bufferStr)
                 THEN OpenBranch(s1, bufferStr)
                 ELSE IF MatchString(thinkClosePattern, bufferStr)
                 THEN CloseBranch(s1, bufferStr)
                 ELSE NormalBranch(s1, chunk)

\* The callback streamResponse hands to ChatStream, applied to one chunk.
Callback(st, chunk) ==
    LET s1 == Animate(AccumulateFull(st, chunk))
    IN  IF s1.thinkingClosed THEN ClosedBranch(s1, chunk)
        ELSE LET bufferStr == s1.buffer \o chunk
             IN  IF ~s1.inThinking /\ MatchString(thinkTagPattern, bufferStr)
                 THEN OpenBranch(s1, bufferStr)
                 ELSE IF s1.inThinking /\ MatchString(thinkClosePattern, bufferStr)
                 THEN CloseBranch(s1, bufferStr)
                 ELSE NormalBranch(s1, chunk)

\* The locals of streamResponse when the callback is first called.
NewStream(colors) ==
    [useColors |-> colors,
     fullResponse |-> << >>,
     buffer |-> << >>,
     afterThinkingContent |-> << >>,
     inThinking |-> FALSE,
     thinkingStarted |-> FALSE,
     thinkingClosed |-> FALSE,
     frameCount |-> 1,
     output |-> << >>,
     style |-> "None",
     modes |-> <<"Normal">>]

RECURSIVE RunCallback(_, _)
\* The callback applied to the chunks of a sequence, one after the other.
RunCallback(st, chunks) ==
    IF chunks = << >> THEN st
    ELSE RunCallback(Callback(st, Head(chunks)), Tail(chunks))

\* The text of the writes, in order, the progress indicator left out.
RECURSIVE OutText(_)
OutText(out) ==
    IF out = << >> THEN << >>
    ELSE (IF Head(out).style = "Loading" THEN << >> ELSE Head(out).text)
         \o OutText(Tail(out))

\* ------------------------------------------------------------ stream inputs

\* The pieces response texts are made of: plain text, a delimiter pair, and
\* an opening delimiter cut short.
Segments == {<<"a">>, OpenThink, CloseThink, <<"<", "t", "h", "i">>}

\* The examples of the documentation: a reply with two reasoning regions,
\* and replies with one region and text around it.
TwoRegions ==
    OpenThink \o <<"a">> \o CloseThink \o <<"b">> \o
    OpenThink \o <<"c">> \o CloseThink \o <<"d">>

OneRegion == OpenThink \o <<"a">> \o CloseThink \o <<"b">>

OneRegionAfterText ==
    <<"x", "y">> \o OpenThink \o <<"a">> \o CloseThink \o <<"b">>

LongSpelling == OpenThinking \o <<"a">> \o CloseThinking \o <<"b">>

\* A reply whose answer follows the reasoning region after a line break.
SpacedAnswer == OpenThink \o CloseThink \o <<"\n", "b">>

\* A reply with delimiters out of place: a closing one before any opening
\* one, and an opening one inside the reasoning region.
StrayDelimiters == CloseThink \o OpenThink \o OpenThink

Texts ==
    {Flatten(ss) : ss \in UNION {[1..k -> Segments] : k \in 0..MaxSegs}}
    \cup {TwoRegions, OneRegion, OneRegionAfterText, LongSpelling,
          SpacedAnswer, StrayDelimiters}

\* ------------------------------------------------------------------- state

VARIABLES
    \* Session: useColors, renderMarkdown
    useColors, renderMarkdown,
    \* the reply the server streams, and the chunks delivered so far
    text, fed,
    \* streamResponse: its locals
    fullResponse, buffer, afterThinkingContent,
    inThinking, thinkingStarted, thinkingClosed, frameCount,
    \* the output sink: the writes of the callback, the terminal's style,
    \* and the mode changes so far
    output, style, modes,
    \* streamResponse: where it is, what it returned, what it rendered
    pc, reply, mdCalls,
    \* what drives the callback: "chunks" (the reply cut into chunks) or
    \* "lines" (decodeStream reading a response body)
    source,
    \* the response body, and the scanner over it: the lines it has
    \* yielded and its error
    body, pos, scanErr,
    \* decodeStream: its accumulator, where it is, what it returned
    fullContent, dpc, dret, derr,
    \* for each call of the callback, the line whose content it was given
    calls,
    \* the tokens the callback handed to decodeStream returns an error for
    rejects,
    \* Session: history, whether store is set, sessionID; the batches handed
    \* to Store.AppendMessagesBatch; the calls of sendMessage so far
    history, store, sessionID, persisted, requests,
    \* sendMessage: its local userMsg, the history and the batches as they
    \* were when it was called, and how the last call ended
    userMsg, atCall, prev,
    \* the package's markdown renderer: "unset" until getMarkdownRenderer
    \* has initialised it, then the error of the initialisation
    mdRendererErr,
    \* tui.Model: messages, streaming, streamContent, whether store is set,
    \* sessionID
    messages, streaming, streamContent, modelStore, modelSessionID,
    \* the TUI's stream: the channel ch, the goroutine that runs ChatStream
    \* and what ChatStream returned to it, whether a waitForChunk command is
    \* blocked on ch, whether the command that creates the session is running
    ch, gpc, gerr, waiting, creating,
    \* the messages that await Update, the batches handed to
    \* Store.AppendMessagesBatch by persistLastExchange, and the calls of
    \* Model.sendMessage so far
    inbox, written, sent,
    \* the "/load" commands that run, the "/load" lines entered so far, and
    \* for each call of Model.sendMessage its prompt and the session it was
    \* made in (0: none, or the one its session command is to create)
    loading, loads, prompts,
    \* a second invocation of streamResponse that runs at the same time:
    \* the reply streamed to it, the chunks delivered to its callback, and
    \* its locals
    peerText, peerFed, peer

lexVars ==
    <<useColors, renderMarkdown, text, fed, fullResponse, buffer,
      afterThinkingContent, inThinking, thinkingStarted, thinkingClosed,
      frameCount, output, style, modes, pc, reply, mdCalls>>

decVars ==
    <<source, body, pos, scanErr, fullContent, dpc, dret, derr, calls,
      rejects>>

sessVars ==
    <<history, store, sessionID, persisted, requests, userMsg, atCall, prev,
      mdRendererErr>>

tuiVars ==
    <<messages, streaming, streamContent, modelStore, modelSessionID,
      ch, gpc, gerr, waiting, creating, inbox, written, sent, loading, loads,
      prompts>>

peerVars == <<peerText, peerFed, peer>>

VARIABLES
    \* Client: the LRU cache, oldest entry first
    cache,
    \* the HTTP requests the client has issued
    httpRequests,
    \* the one-off requests the client had answered when the run began, the
    \* one-off requests made in all, and the calls with a repeated request
    \* made in the run
    warm, fresh, named,
    \* for each repeated request: the response of its last successful call
    \* that went to the server, and whether its entry was evicted since
    earlier,
    \* the last call of Chat: request, result, and what was known before it
    last

cacheVars == <<cache, httpRequests, warm, fresh, named, earlier, last>>

VARIABLES
    \* the buffered processStream reading the same body: the lines its
    \* scanner has yielded and the scanner's error, its outputBuffer, the
    \* strings it has passed to onChunk, where it is, what it returned
    bpos, bscanErr, outputBuffer, chunks, bpc, berr

bufVars == <<bpos, bscanErr, outputBuffer, chunks, bpc, berr>>

VARIABLES
    \* security.RateLimiter: its configuration, the clock, the time stamps
    \* kept for the client's key, and the time stamps of the calls of Allow
    \* that returned true
    rlConfig, rlNow, rlRequests, granted,
    \* the limiter's mu, and where each of the goroutines that call the
    \* limiter is
    mu, rlpc

rlVars == <<rlConfig, rlNow, rlRequests, granted, mu, rlpc>>

vars ==
    <<lexVars, decVars, sessVars, tuiVars, peerVars, cacheVars, bufVars,
      rlVars>>

\* The locals of streamResponse as one record.
Locals ==
    [useColors |-> useColors,
     fullResponse |-> fullResponse,
     buffer |-> buffer,
     afterThinkingContent |-> afterThinkingContent,
     inThinking |-> inThinking,
     thinkingStarted |-> thinkingStarted,
     thinkingClosed |-> thinkingClosed,
     frameCount |-> frameCount,
     output |-> output,
     style |-> style,
     modes |-> modes]

SetLocals(st) ==
    /\ fullResponse' = st.fullResponse
    /\ buffer' = st.buffer
    /\ afterThinkingContent' = st.afterThinkingContent
    /\ inThinking' = st.inThinking
    /\ thinkingStarted' = st.thinkingStarted
    /\ thinkingClosed' = st.thinkingClosed
    /\ frameCount' = st.frameCount
    /\ output' = st.output
    /\ style' = st.style
    /\ modes' = st.modes

\* What has been delivered, and what is still to come.
Delivered == Flatten(fed)
Pending == SliceFrom(text, Len(Delivered))

\* strings.TrimSpace
IsSpace(c) == c \in {" ", "\n", "\t", "\r"}

RECURSIVE TrimLeft(_)
TrimLeft(s) ==
    IF s # << >> /\ IsSpace(Head(s)) THEN TrimLeft(Tail(s)) ELSE s

RECURSIVE TrimRight(_)
TrimRight(s) ==
    IF s # << >> /\ IsSpace(s[Len(s)])
    THEN TrimRight(SubSeq(s, 1, Len(s) - 1)) ELSE s

TrimSpace(s) == TrimRight(TrimLeft(s))

\* Message{Role: "user", Content: c}, Message{Role: "assistant", Content: c}
UserMessage(c) == [role |-> "user", content |-> c]
AssistantMessage(c) == [role |-> "assistant", content |-> c]

\* The inputs of sendMessage after SanitizeInput.
Prompts == {<<"q">>, <<"r">>}

\* sendMessage, called in a new session without a store, up to its call of
\* streamResponse: the user message is in the history.
InFlight ==
    /\ userMsg = UserMessage(<<"q">>)
    /\ history = <<userMsg>>
    /\ store = FALSE
    /\ sessionID = 0
    /\ persisted = << >>
    /\ requests = 1
    /\ atCall = [history |-> << >>, persisted |-> << >>, sessionID |-> 0]
    /\ prev = [ended |-> "none", inThinking |-> FALSE]
    /\ mdRendererErr = "unset"

\* The requests Chat is called with more than once: an ordinary one, one
\* for an o3 model with an infinite temperature, and one for another model
\* with an infinite temperature.
Ordinary ==
    [messages |-> <<"q">>, model |-> <<"g", "p", "t">>, temperature |-> "0.7"]

NamedRequests ==
    {Ordinary,
     [messages |-> <<"q">>, model |-> <<"o", "3", "m">>,
      temperature |-> "+Inf"],
     [messages |-> <<"q">>, model |-> <<"g", "p", "t">>,
      temperature |-> "+Inf"]}

\* No successful call is known for a request.
NoPrior == [known |-> FALSE, response |-> << >>, evicted |-> FALSE]

\* No call of Chat was made for a repeated request.
NoEarlier == [r \in NamedRequests |-> NoPrior]

\* The client NewClient returns: an empty cache, no call made.
NoCache ==
    /\ cache = << >>
    /\ httpRequests = 0
    /\ warm = 0
    /\ fresh = 0
    /\ named = 0
    /\ earlier = NoEarlier
    /\ last = [kind |-> "none"]

\* No buffered processStream runs.
NoBuffered ==
    /\ bpos = 0
    /\ bscanErr = "nil"
    /\ outputBuffer = << >>
    /\ chunks = << >>
    /\ bpc = "idle"
    /\ berr = "nil"

\* The key has no entry in the limiter's map.
NoKey == [exists |-> FALSE, times |-> << >>]

\* The goroutines that call the limiter: the one that asks for the
\* statistics, and one for each of Allow, Reset and the clean-up routine.
Writers == {"Allow", "Reset", "performCleanup"}
Callers == {"GetStats"} \cup Writers

\* The limiter of NewSecureClient before any call: ten requests a window,
\* and a clean-up interval of five windows.
NoLimiter ==
    /\ rlConfig = [maxRequests |-> 10, windowSize |-> 1,
                   cleanupInterval |-> 5]
    /\ rlNow = 0
    /\ rlRequests = NoKey
    /\ granted = << >>
    /\ mu = [readers |-> 0, w |-> "none"]
    /\ rlpc = [p \in Callers |-> "idle"]

\* No second invocation of streamResponse runs.
NoPeer ==
    /\ peerText = << >>
    /\ peerFed = << >>
    /\ peer = NewStream(FALSE)

\* No TUI runs: the program was started with the line interface.
NoTUI ==
    /\ messages = << >>
    /\ streaming = FALSE
    /\ streamContent = << >>
    /\ modelStore = FALSE
    /\ modelSessionID = 0
    /\ ch = "none"
    /\ gpc = "none"
    /\ gerr = "none"
    /\ waiting = FALSE
    /\ creating = {}
    /\ inbox = << >>
    /\ written = << >>
    /\ sent = 0
    /\ loading = {}
    /\ loads = 0
    /\ prompts = << >>

\* streamResponse up to the ChatStream call.
InitLocals ==
    /\ fullResponse = NewStream(useColors).fullResponse
    /\ buffer = NewStream(useColors).buffer
    /\ afterThinkingContent = NewStream(useColors).afterThinkingContent
    /\ inThinking = NewStream(useColors).inThinking
    /\ thinkingStarted = NewStream(useColors).thinkingStarted
    /\ thinkingClosed = NewStream(useColors).thinkingClosed
    /\ frameCount = NewStream(useColors).frameCount
    /\ output = NewStream(useColors).output
    /\ style = NewStream(useColors).style
    /\ modes = NewStream(useColors).modes
    /\ pc = "streaming"
    /\ reply = << >>
    /\ mdCalls = << >>

\* A session (colours on or off, markdown rendering on as NewSession sets
\* it) about to stream a reply that arrives cut into chunks.
InitLexer ==
    /\ useColors \in BOOLEAN
    /\ renderMarkdown = TRUE
    /\ text \in Texts
    /\ fed = << >>
    /\ InitLocals
    /\ InFlight
    /\ NoTUI
    /\ NoPeer
    /\ NoCache
    /\ NoBuffered
    /\ NoLimiter
    /\ source = "chunks"
    /\ body = [lines |-> << >>, partial |-> FALSE, ending |-> "eof"]
    /\ pos = 0
    /\ scanErr = "nil"
    /\ fullContent = << >>
    /\ dpc = "idle"
    /\ dret = << >>
    /\ derr = "nil"
    /\ calls = << >>
    /\ rejects = {}

\* ChatStream has returned without an error.
StreamOk ==
    IF source = "chunks" THEN Pending = << >>
    ELSE dpc = "returned" /\ derr = "nil"

\* ChatStream has returned an error: at any time for a transport failure,
\* a time-out or a cancellation, else when decodeStream returned one.
StreamErr ==
    IF source = "chunks" THEN TRUE
    ELSE dpc = "returned" /\ derr # "nil"

\* ChatStream delivers the next chunk: the next n characters of the reply.
\* The last of MaxChunks chunks carries all that is left.
Feed ==
    /\ pc = "streaming"
    /\ Pending # << >>
    /\ \E n \in 1..Len(Pending) :
          /\ Len(fed) + 1 = MaxChunks => n = Len(Pending)
          /\ fed' = Append(fed, SliceTo(Pending, n))
          /\ SetLocals(Callback(Locals, SliceTo(Pending, n)))
    /\ UNCHANGED <<useColors, renderMarkdown, text, pc, reply, mdCalls>>
    /\ UNCHANGED decVars
    /\ UNCHANGED sessVars
    /\ UNCHANGED tuiVars
    /\ UNCHANGED peerVars
    /\ UNCHANGED cacheVars
    /\ UNCHANGED bufVars
    /\ UNCHANGED rlVars

\* A variant of RenderInput: the whole reply is rendered, thinking tags
\* or not.
RenderInputWhole ==
    IF /\ renderMarkdown
       /\ \/ thinkingClosed /\ Len(afterThinkingContent) > 0
          \/ ~thinkingStarted
    THEN <<fullResponse>>
    ELSE << >>

\* The text streamResponse hands to renderer.Render after the stream, if any.
RenderInput ==
    IF thinkingClosed /\ Len(afterThinkingContent) > 0 /\ renderMarkdown
    THEN IF TrimSpace(afterThinkingContent) # << >>
         THEN <<TrimSpace(afterThinkingContent)>>
         ELSE << >>
    ELSE IF ~thinkingStarted /\ renderMarkdown
         THEN <<fullResponse>>
         ELSE << >>

\* streamResponse asks for the markdown renderer after the stream: for the
\* text after the thinking tags, or in printAssistant for a reply without
\* thinking tags.
NeedsRenderer ==
    \/ thinkingClosed /\ Len(afterThinkingContent) > 0 /\ renderMarkdown
    \/ ~thinkingStarted /\ renderMarkdown

\* ChatStream returns nil: reset the colours, render, return the reply.
\* getMarkdownRenderer initialises the renderer at its first call and
\* answers the same from then on.
Finish ==
    /\ pc = "streaming"
    /\ StreamOk
    /\ IF NeedsRenderer
       THEN \E e \in {"nil", "error"} :
               /\ mdRendererErr # "unset" => e = mdRendererErr
               /\ mdRendererErr' = e
               /\ mdCalls' = IF e = "nil" THEN RenderInput ELSE << >>
       ELSE /\ mdRendererErr' = mdRendererErr
            /\ mdCalls' = << >>
    /\ style' = "None"
    /\ reply' = fullResponse
    /\ pc' = "done"
    /\ UNCHANGED <<useColors, renderMarkdown, text, fed, fullResponse, buffer,
                   afterThinkingContent, inThinking, thinkingStarted,
                   thinkingClosed, frameCount, output, modes>>
    /\ UNCHANGED decVars
    /\ UNCHANGED <<history, store, sessionID, persisted, requests, userMsg,
                   atCall, prev>>
    /\ UNCHANGED tuiVars
    /\ UNCHANGED peerVars
    /\ UNCHANGED cacheVars
    /\ UNCHANGED bufVars
    /\ UNCHANGED rlVars

\* ChatStream returns an error (transport, time-out, cancellation).
Fail ==
    /\ pc = "streaming"
    /\ StreamErr
    /\ reply' = << >>
    /\ pc' = "failed"
    /\ UNCHANGED <<useColors, renderMarkdown, text, fed, fullResponse, buffer,
                   afterThinkingContent, inThinking, thinkingStarted,
                   thinkingClosed, frameCount, output, style, modes, mdCalls>>
    /\ UNCHANGED decVars
    /\ UNCHANGED sessVars
    /\ UNCHANGED tuiVars
    /\ UNCHANGED peerVars
    /\ UNCHANGED cacheVars
    /\ UNCHANGED bufVars
    /\ UNCHANGED rlVars

NextLexer == Feed \/ Finish \/ Fail

SpecLexer == InitLexer /\ [][NextLexer]_vars

\* ------------------------------------------------------------ the decoder

\* A line of the response body: what precedes the payload ("data: " or
\* nothing), the payload, and whether the line is longer than the scanner's
\* maximum token size.  A payload is a text that is no JSON object, or a
\* JSON object with its choices, each choice being its delta's content
\* (empty when the field is absent).
Txt(str) == [kind |-> "text", s |-> str, choices |-> << >>]
Json(cs) == [kind |-> "json", s |-> "", choices |-> cs]
DataLine(payload) == [pre |-> "data: ", payload |-> payload, long |-> FALSE]
RawLine(payload) == [pre |-> "", payload |-> payload, long |-> FALSE]

Lines ==
    {DataLine(Txt("[DONE]")),
     DataLine(Txt("{not json")),
     DataLine(Json(<< >>)),
     DataLine(Json(<< << >> >>)),
     DataLine(Json(<< <<"a">> >>)),
     DataLine(Json(<<OpenThink>>)),
     DataLine(Json(<<CloseThink>>)),
     DataLine(Json(<< <<"b">>, <<"a">> >>)),
     RawLine(Txt(": keep-alive")),
     RawLine(Json(<< <<"a">> >>)),
     [DataLine(Json(<< <<"a">> >>)) EXCEPT !.long = TRUE]}

\* A response body: its lines, whether the last of them lacks its line
\* break, and how the source ends ("eof", or "read" for a read error).
Bodies ==
    {[lines |-> ls, partial |-> p, ending |-> e] :
        ls \in UNION {[1..k -> Lines] : k \in 0..MaxLines},
        p \in BOOLEAN, e \in {"eof", "read"}}

\* A variant of HasDataPrefix: the test for the prefix left out.
HasDataPrefixAny(line) == line.pre \in {"data: ", ""}

\* strings.HasPrefix(line, "data: ")
HasDataPrefix(line) == line.pre = "data: "

\* strings.TrimPrefix(line, "data: ")
TrimPrefix(line) == line.payload

\* data == "[DONE]"
IsSentinel(data) == data.kind = "text" /\ data.s = "[DONE]"

\* json.Unmarshal([]byte(data), &chunk)
Unmarshal(data) ==
    IF data.kind = "json"
    THEN [err |-> FALSE, choices |-> data.choices]
    ELSE [err |-> TRUE, choices |-> << >>]

\* A variant of Outcome: a payload that is no JSON ends the loop.
OutcomeBreakOnMalformed(line) ==
    IF line.pre # "data: " THEN "skip"
    ELSE IF line.payload.kind = "text" THEN "break"
    ELSE IF /\ Len(line.payload.choices) > 0
            /\ line.payload.choices[1] # << >>
         THEN "token"
         ELSE "nocontent"

\* One pass of the loop body over a line: which way it leaves.
Outcome(line) ==
    IF ~HasDataPrefix(line) THEN "skip"
    ELSE IF IsSentinel(TrimPrefix(line)) THEN "break"
    ELSE IF Unmarshal(TrimPrefix(line)).err THEN "malformed"
    ELSE IF /\ Len(Unmarshal(TrimPrefix(line)).choices) > 0
            /\ Unmarshal(TrimPrefix(line)).choices[1] # << >>
         THEN "token"
         ELSE "nocontent"

\* token := chunk.Choices[0].Delta.Content
TokenOf(line) == Unmarshal(TrimPrefix(line)).choices[1]

\* A variant of CallbackErr: a closing tag is reported as an error.
CallbackErrOnCloseTag(token) ==
    IF MatchString(thinkClosePattern, token) THEN "callback error" ELSE "nil"

\* What the callback returns for a token: the callback of streamResponse
\* returns nil on every path.
CallbackErr(token) == "nil"

\* What the callback handed to decodeStream returns for a token: the
\* callback of streamResponse, or one that returns an error for some tokens.
CallbackReturns(token) ==
    IF token \in rejects THEN "callback error" ELSE CallbackErr(token)

\* A variant of ErrOf: the scanner's error for a line that is too long is
\* taken for the end of the input.
ErrOfIgnoringTooLong(se) ==
    IF se \in {"nil", "eof", "too long"} THEN "nil" ELSE "stream error"

\* scanner.Err(): nil at the end of the input, else the error
ErrOf(se) == IF se \in {"nil", "eof"} THEN "nil" ELSE "stream error"

\* streamResponse calls ChatStream for a body the server sends.
Init ==
    /\ useColors \in BOOLEAN
    /\ renderMarkdown = TRUE
    /\ text = << >>
    /\ fed = << >>
    /\ InitLocals
    /\ InFlight
    /\ NoTUI
    /\ NoPeer
    /\ NoCache
    /\ NoBuffered
    /\ NoLimiter
    /\ source = "lines"
    /\ body \in Bodies
    /\ body.lines = << >> => ~body.partial
    /\ pos = 0
    /\ scanErr = "nil"
    /\ fullContent = << >>
    /\ dpc = "scanning"
    /\ dret = << >>
    /\ derr = "nil"
    /\ calls = << >>
    /\ rejects = {}

NextLine == body.lines[pos + 1]

\* scanner.Scan() has a line to yield: a next line within the size limit.
ScanYields ==
    /\ dpc = "scanning"
    /\ pos < Len(body.lines)
    /\ ~NextLine.long

\* The scanner after yielding a line.  The last line, when it lacks its
\* line break, is yielded once the source has reported its end or error.
Advance ==
    /\ pos' = pos + 1
    /\ scanErr' = IF pos + 1 = Len(body.lines) /\ body.partial
                  THEN body.ending ELSE scanErr

\* How a pass with outcome o leaves the loop, or stays in it: break at the
\* sentinel and return what scanner.Err() says.
Leave(o) ==
    IF o = "break"
    THEN /\ dpc' = "returned"
         /\ dret' = fullContent
         /\ derr' = ErrOf(scanErr')
    ELSE UNCHANGED <<dpc, dret, derr>>

\* A line without the "data: " prefix: continue.
SkipLine ==
    /\ ScanYields
    /\ Outcome(NextLine) = "skip"
    /\ Advance
    /\ Leave("skip")
    /\ UNCHANGED <<rejects, source, body, fullContent, calls>>
    /\ UNCHANGED lexVars
    /\ UNCHANGED sessVars
    /\ UNCHANGED tuiVars
    /\ UNCHANGED peerVars
    /\ UNCHANGED cacheVars
    /\ UNCHANGED bufVars
    /\ UNCHANGED rlVars

\* "data: [DONE]": break, then return what scanner.Err() says.
Sentinel ==
    /\ ScanYields
    /\ Outcome(NextLine) = "break"
    /\ Advance
    /\ Leave("break")
    /\ UNCHANGED <<rejects, source, body, fullContent, calls>>
    /\ UNCHANGED lexVars
    /\ UNCHANGED sessVars
    /\ UNCHANGED tuiVars
    /\ UNCHANGED peerVars
    /\ UNCHANGED cacheVars
    /\ UNCHANGED bufVars
    /\ UNCHANGED rlVars

\* A payload json.Unmarshal rejects: skip the malformed chunk.
Malformed ==
    /\ ScanYields
    /\ Outcome(NextLine) = "malformed"
    /\ Advance
    /\ Leave("malformed")
    /\ UNCHANGED <<rejects, source, body, fullContent, calls>>
    /\ UNCHANGED lexVars
    /\ UNCHANGED sessVars
    /\ UNCHANGED tuiVars
    /\ UNCHANGED peerVars
    /\ UNCHANGED cacheVars
    /\ UNCHANGED bufVars
    /\ UNCHANGED rlVars

\* No choices, or a first choice without content: nothing to deliver.
NoContent ==
    /\ ScanYields
    /\ Outcome(NextLine) = "nocontent"
    /\ Advance
    /\ Leave("nocontent")
    /\ UNCHANGED <<rejects, source, body, fullContent, calls>>
    /\ UNCHANGED lexVars
    /\ UNCHANGED sessVars
    /\ UNCHANGED tuiVars
    /\ UNCHANGED peerVars
    /\ UNCHANGED cacheVars
    /\ UNCHANGED bufVars
    /\ UNCHANGED rlVars

\* A variant of Token: the error of the callback is dropped and the loop
\* goes on.
TokenIgnoringError ==
    /\ ScanYields
    /\ Outcome(NextLine) = "token"
    /\ Advance
    /\ Leave("token")
    /\ fullContent' = fullContent \o TokenOf(NextLine)
    /\ calls' = Append(calls, pos + 1)
    /\ fed' = Append(fed, TokenOf(NextLine))
    /\ SetLocals(Callback(Locals, TokenOf(NextLine)))
    /\ UNCHANGED <<rejects, source, body>>
    /\ UNCHANGED <<useColors, renderMarkdown, text, pc, reply, mdCalls>>
    /\ UNCHANGED sessVars
    /\ UNCHANGED tuiVars
    /\ UNCHANGED peerVars
    /\ UNCHANGED cacheVars
    /\ UNCHANGED bufVars
    /\ UNCHANGED rlVars

\* A content increment: accumulate it and call the callback with it; an
\* error of the callback is returned with the content so far.
Token ==
    /\ ScanYields
    /\ Outcome(NextLine) = "token"
    /\ Advance
    /\ IF CallbackReturns(TokenOf(NextLine)) # "nil"
       THEN /\ dpc' = "returned"
            /\ dret' = fullContent \o TokenOf(NextLine)
            /\ derr' = CallbackReturns(TokenOf(NextLine))
       ELSE Leave("token")
    /\ fullContent' = fullContent \o TokenOf(NextLine)
    /\ calls' = Append(calls, pos + 1)
    /\ fed' = Append(fed, TokenOf(NextLine))
    /\ SetLocals(Callback(Locals, TokenOf(NextLine)))
    /\ UNCHANGED <<rejects, source, body>>
    /\ UNCHANGED <<useColors, renderMarkdown, text, pc, reply, mdCalls>>
    /\ UNCHANGED sessVars
    /\ UNCHANGED tuiVars
    /\ UNCHANGED peerVars
    /\ UNCHANGED cacheVars
    /\ UNCHANGED bufVars
    /\ UNCHANGED rlVars

\* scanner.Scan() returns false: the input has ended, the source has
\* failed, or the next line is too long.
ScanEnd ==
    /\ dpc = "scanning"
    /\ ~(pos < Len(body.lines) /\ ~NextLine.long)
    /\ scanErr' = IF pos < Len(body.lines) THEN "too long"
                  ELSE IF scanErr = "nil" THEN body.ending ELSE scanErr
    /\ dpc' = "returned"
    /\ dret' = fullContent
    /\ derr' = ErrOf(scanErr')
    /\ UNCHANGED <<rejects, source, body, pos, fullContent, calls>>
    /\ UNCHANGED lexVars
    /\ UNCHANGED sessVars
    /\ UNCHANGED tuiVars
    /\ UNCHANGED peerVars
    /\ UNCHANGED cacheVars
    /\ UNCHANGED bufVars
    /\ UNCHANGED rlVars

Next ==
    \/ SkipLine \/ Sentinel \/ Malformed \/ NoContent \/ Token \/ ScanEnd
    \/ Finish \/ Fail

Spec == Init /\ [][Next]_vars

\* The tokens a callback may reject.
Rejecting == {{<<"a">>}, {CloseThink}}

\* ChatStream is called for a body the server sends with a callback that
\* returns an error for some tokens.
InitReject ==
    /\ useColors \in BOOLEAN
    /\ renderMarkdown = TRUE
    /\ text = << >>
    /\ fed = << >>
    /\ InitLocals
    /\ InFlight
    /\ NoTUI
    /\ NoPeer
    /\ NoCache
    /\ NoBuffered
    /\ NoLimiter
    /\ source = "lines"
    /\ body \in Bodies
    /\ body.lines = << >> => ~body.partial
    /\ pos = 0
    /\ scanErr = "nil"
    /\ fullContent = << >>
    /\ dpc = "scanning"
    /\ dret = << >>
    /\ derr = "nil"
    /\ calls = << >>
    /\ rejects \in Rejecting

SpecReject == InitReject /\ [][Next]_vars

\* ------------------------------------------------ the buffered decoder

\* flushThreshold: 256
flushThreshold == 256

\* A content increment one byte short of the flush threshold.
NearThreshold == [i \in 1..(flushThreshold - 1) |-> "x"]

\* The lines of the bodies both decoders read: the sentinel, a payload that
\* is no JSON, a line without the prefix, a line that is too long, an empty
\* content increment, and content increments of one byte and of one byte
\* less than the threshold.
BufferedLines ==
    {DataLine(Txt("[DONE]")),
     DataLine(Txt("{not json")),
     DataLine(Json(<< << >> >>)),
     RawLine(Json(<< <<"a">> >>)),
     DataLine(Json(<< <<"a">> >>)),
     DataLine(Json(<<NearThreshold>>)),
     [DataLine(Json(<< <<"a">> >>)) EXCEPT !.long = TRUE]}

BufferedBodies ==
    {[lines |-> ls, partial |-> p, ending |-> e] :
        ls \in UNION {[1..k -> BufferedLines] : k \in 0..MaxLines},
        p \in BOOLEAN, e \in {"eof", "read"}}

\* The same body is handed to decodeStream and to the buffered
\* processStream, each with a callback that never fails.
InitBuffered ==
    /\ useColors = FALSE
    /\ renderMarkdown = TRUE
    /\ text = << >>
    /\ fed = << >>
    /\ InitLocals
    /\ InFlight
    /\ NoTUI
    /\ NoPeer
    /\ NoCache
    /\ source = "lines"
    /\ body \in BufferedBodies
    /\ body.lines = << >> => ~body.partial
    /\ pos = 0
    /\ scanErr = "nil"
    /\ fullContent = << >>
    /\ dpc = "scanning"
    /\ dret = << >>
    /\ derr = "nil"
    /\ calls = << >>
    /\ rejects = {}
    /\ bpos = 0
    /\ bscanErr = "nil"
    /\ outputBuffer = << >>
    /\ chunks = << >>
    /\ bpc = "scanning"
    /\ berr = "nil"
    /\ NoLimiter

\* The line the scanner of processStream yields next.
BufferedLine == body.lines[bpos + 1]

\* One pass of the loop of processStream over the next line.
BufferedPass ==
    /\ bpc = "scanning"
    /\ bpos < Len(body.lines)
    /\ ~BufferedLine.long
    /\ bpos' = bpos + 1
    /\ bscanErr' = IF bpos + 1 = Len(body.lines) /\ body.partial
                   THEN body.ending ELSE bscanErr
    /\ CASE Outcome(BufferedLine) = "break" ->
              \* the sentinel: flush what is left and return
              /\ IF outputBuffer # << >>
                 THEN /\ chunks' = Append(chunks, outputBuffer)
                      /\ berr' = CallbackReturns(outputBuffer)
                 ELSE UNCHANGED <<chunks, berr>>
              /\ bpc' = "returned"
              /\ UNCHANGED outputBuffer
         [] Outcome(BufferedLine) = "token" ->
              LET b == outputBuffer \o TokenOf(BufferedLine)
              IN  IF Len(b) >= flushThreshold
                  THEN /\ chunks' = Append(chunks, b)
                       /\ IF CallbackReturns(b) # "nil"
                          THEN /\ bpc' = "returned"
                               /\ berr' = CallbackReturns(b)
                               /\ outputBuffer' = b
                          ELSE /\ outputBuffer' = << >>
                               /\ UNCHANGED <<bpc, berr>>
                  ELSE /\ outputBuffer' = b
                       /\ UNCHANGED <<chunks, bpc, berr>>
         [] OTHER -> UNCHANGED <<outputBuffer, chunks, bpc, berr>>
    /\ UNCHANGED <<lexVars, decVars, sessVars, tuiVars, peerVars, cacheVars>>
    /\ UNCHANGED rlVars

\* A variant of BufferedEnd: what is left in the buffer is not flushed.
BufferedEndDropping ==
    /\ bpc = "scanning"
    /\ ~(bpos < Len(body.lines) /\ ~BufferedLine.long)
    /\ bscanErr' = IF bpos < Len(body.lines) THEN "too long"
                   ELSE IF bscanErr = "nil" THEN body.ending ELSE bscanErr
    /\ bpc' = "returned"
    /\ berr' = IF ErrOf(bscanErr') # "nil" THEN "stream read error" ELSE "nil"
    /\ UNCHANGED <<bpos, outputBuffer, chunks>>
    /\ UNCHANGED <<lexVars, decVars, sessVars, tuiVars, peerVars, cacheVars>>
    /\ UNCHANGED rlVars

\* scanner.Scan() returns false: the error of the scanner is returned, or
\* what is left in the buffer is flushed.
BufferedEnd ==
    /\ bpc = "scanning"
    /\ ~(bpos < Len(body.lines) /\ ~BufferedLine.long)
    /\ bscanErr' = IF bpos < Len(body.lines) THEN "too long"
                   ELSE IF bscanErr = "nil" THEN body.ending ELSE bscanErr
    /\ bpc' = "returned"
    /\ IF ErrOf(bscanErr') # "nil"
       THEN berr' = "stream read error" /\ UNCHANGED chunks
       ELSE IF outputBuffer # << >>
       THEN /\ chunks' = Append(chunks, outputBuffer)
            /\ berr' = CallbackReturns(outputBuffer)
       ELSE UNCHANGED <<chunks, berr>>
    /\ UNCHANGED <<bpos, outputBuffer>>
    /\ UNCHANGED <<lexVars, decVars, sessVars, tuiVars, peerVars, cacheVars>>
    /\ UNCHANGED rlVars

NextBuffered ==
    \/ SkipLine \/ Sentinel \/ Malformed \/ NoContent \/ Token \/ ScanEnd
    \/ BufferedPass \/ BufferedEnd

SpecBuffered == InitBuffered /\ [][NextBuffered]_vars

\* ------------------------------------------------------------ the session

\* The replies the server streams to the requests of a session.
SessionTexts == {<<"a", "b">>, OpenThink \o <<"a">>}

\* No stream is in progress: streamResponse is not running.
IdleStream ==
    /\ text = << >>
    /\ fed = << >>
    /\ fullResponse = << >>
    /\ buffer = << >>
    /\ afterThinkingContent = << >>
    /\ inThinking = FALSE
    /\ thinkingStarted = FALSE
    /\ thinkingClosed = FALSE
    /\ frameCount = 0
    /\ output = << >>
    /\ style = "None"
    /\ modes = <<"Normal">>
    /\ pc = "idle"
    /\ reply = << >>
    /\ mdCalls = << >>

\* The stream is delivered as chunks; no response body is being decoded.
IdleDecoder ==
    /\ source = "chunks"
    /\ body = [lines |-> << >>, partial |-> FALSE, ending |-> "eof"]
    /\ pos = 0
    /\ scanErr = "nil"
    /\ fullContent = << >>
    /\ dpc = "idle"
    /\ dret = << >>
    /\ derr = "nil"
    /\ calls = << >>
    /\ rejects = {}

\* A new session at the prompt: no request made yet, with or without a
\* store.  The locals of streamResponse do not exist yet.
InitSession ==
    /\ useColors \in BOOLEAN
    /\ renderMarkdown = TRUE
    /\ IdleStream
    /\ IdleDecoder
    /\ history = << >>
    /\ store \in BOOLEAN
    /\ sessionID = 0
    /\ persisted = << >>
    /\ requests = 0
    /\ userMsg = UserMessage(<< >>)
    /\ atCall = [history |-> << >>, persisted |-> << >>, sessionID |-> 0]
    /\ prev = [ended |-> "none", inThinking |-> FALSE]
    /\ mdRendererErr = "unset"
    /\ NoTUI
    /\ NoPeer
    /\ NoCache
    /\ NoBuffered
    /\ NoLimiter

\* ensureSession when a store is set and no session exists yet: the id of
\* the created session, or the store dropped when CreateSession fails.
EnsureSession(createOk) ==
    IF store /\ sessionID = 0
    THEN IF createOk
         THEN sessionID' = 1 /\ store' = store
         ELSE sessionID' = sessionID /\ store' = FALSE
    ELSE UNCHANGED <<store, sessionID>>

\* A variant of StartStream: the lexer state of the previous call is kept.
StartStreamKeeping ==
    /\ fed' = << >>
    /\ reply' = << >>
    /\ mdCalls' = << >>
    /\ pc' = "streaming"
    /\ UNCHANGED <<fullResponse, buffer, afterThinkingContent, inThinking,
                   thinkingStarted, thinkingClosed, frameCount, output,
                   style, modes>>

\* streamResponse from its entry to the ChatStream call: new locals.
StartStream ==
    /\ SetLocals(NewStream(useColors))
    /\ fed' = << >>
    /\ reply' = << >>
    /\ mdCalls' = << >>
    /\ pc' = "streaming"

\* sendMessage with an input ValidateMessage rejects.
Reject ==
    /\ pc = "idle"
    /\ requests < MaxRequests
    /\ requests' = requests + 1
    /\ atCall' = [history |-> history, persisted |-> persisted,
                sessionID |-> sessionID]
    /\ prev' = [ended |-> "invalid", inThinking |-> FALSE]
    /\ UNCHANGED <<history, store, sessionID, persisted, userMsg>>
    /\ UNCHANGED lexVars
    /\ UNCHANGED decVars
    /\ UNCHANGED tuiVars
    /\ UNCHANGED mdRendererErr
    /\ UNCHANGED peerVars
    /\ UNCHANGED cacheVars
    /\ UNCHANGED bufVars
    /\ UNCHANGED rlVars

\* sendMessage up to the ChatStream call of streamResponse: the session is
\* ensured, the user message is appended, the context is still valid.
Send ==
    /\ pc = "idle"
    /\ requests < MaxRequests
    /\ \E input \in Prompts, createOk \in BOOLEAN, t \in SessionTexts :
          /\ EnsureSession(createOk)
          /\ userMsg' = UserMessage(input)
          /\ history' = Append(history, userMsg')
          /\ text' = t
    /\ requests' = requests + 1
    /\ atCall' = [history |-> history, persisted |-> persisted,
                sessionID |-> sessionID]
    /\ StartStream
    /\ UNCHANGED <<useColors, renderMarkdown, persisted, prev>>
    /\ UNCHANGED decVars
    /\ UNCHANGED tuiVars
    /\ UNCHANGED mdRendererErr
    /\ UNCHANGED peerVars
    /\ UNCHANGED cacheVars
    /\ UNCHANGED bufVars
    /\ UNCHANGED rlVars

\* sendMessage when the context is done before the request is made: the
\* user message is appended and removed again.
Cancelled ==
    /\ pc = "idle"
    /\ requests < MaxRequests
    /\ \E input \in Prompts, createOk \in BOOLEAN :
          /\ EnsureSession(createOk)
          /\ userMsg' = UserMessage(input)
          /\ LET h == Append(history, userMsg')
             IN  history' = SubSeq(h, 1, Len(h) - 1)
    /\ requests' = requests + 1
    /\ atCall' = [history |-> history, persisted |-> persisted,
                sessionID |-> sessionID]
    /\ prev' = [ended |-> "cancelled", inThinking |-> FALSE]
    /\ UNCHANGED persisted
    /\ UNCHANGED lexVars
    /\ UNCHANGED decVars
    /\ UNCHANGED tuiVars
    /\ UNCHANGED mdRendererErr
    /\ UNCHANGED peerVars
    /\ UNCHANGED cacheVars
    /\ UNCHANGED bufVars
    /\ UNCHANGED rlVars

\* persistExchange: the batch handed to the store, if there is one.
PersistExchange(u, a) ==
    IF store /\ sessionID # 0 THEN Append(persisted, <<u, a>>) ELSE persisted

\* sendMessage after streamResponse returned a reply: the assistant message
\* is appended and the exchange persisted.
Commit ==
    /\ pc = "done"
    /\ history' = Append(history, AssistantMessage(reply))
    /\ persisted' = PersistExchange(userMsg, AssistantMessage(reply))
    /\ pc' = "idle"
    /\ prev' = [ended |-> "done", inThinking |-> inThinking]
    /\ UNCHANGED <<store, sessionID, requests, userMsg, atCall>>
    /\ UNCHANGED <<useColors, renderMarkdown, text, fed, fullResponse, buffer,
                   afterThinkingContent, inThinking, thinkingStarted,
                   thinkingClosed, frameCount, output, style, modes, reply,
                   mdCalls>>
    /\ UNCHANGED decVars
    /\ UNCHANGED tuiVars
    /\ UNCHANGED mdRendererErr
    /\ UNCHANGED peerVars
    /\ UNCHANGED cacheVars
    /\ UNCHANGED bufVars
    /\ UNCHANGED rlVars

\* A variant of Rollback: the user message stays in the history.
RollbackKeeping ==
    /\ pc = "failed"
    /\ pc' = "idle"
    /\ prev' = [ended |-> "failed", inThinking |-> inThinking]
    /\ UNCHANGED <<history, store, sessionID, persisted, requests, userMsg,
                   atCall>>
    /\ UNCHANGED <<useColors, renderMarkdown, text, fed, fullResponse, buffer,
                   afterThinkingContent, inThinking, thinkingStarted,
                   thinkingClosed, frameCount, output, style, modes, reply,
                   mdCalls>>
    /\ UNCHANGED decVars
    /\ UNCHANGED tuiVars
    /\ UNCHANGED mdRendererErr
    /\ UNCHANGED peerVars
    /\ UNCHANGED cacheVars
    /\ UNCHANGED bufVars
    /\ UNCHANGED rlVars

\* sendMessage after streamResponse returned an error: the user message is
\* removed from the history.
Rollback ==
    /\ pc = "failed"
    /\ history' = SubSeq(history, 1, Len(history) - 1)
    /\ pc' = "idle"
    /\ prev' = [ended |-> "failed", inThinking |-> inThinking]
    /\ UNCHANGED <<store, sessionID, persisted, requests, userMsg, atCall>>
    /\ UNCHANGED <<useColors, renderMarkdown, text, fed, fullResponse, buffer,
                   afterThinkingContent, inThinking, thinkingStarted,
                   thinkingClosed, frameCount, output, style, modes, reply,
                   mdCalls>>
    /\ UNCHANGED decVars
    /\ UNCHANGED tuiVars
    /\ UNCHANGED mdRendererErr
    /\ UNCHANGED peerVars
    /\ UNCHANGED cacheVars
    /\ UNCHANGED bufVars
    /\ UNCHANGED rlVars

\* What may follow "/load" on the command line: nothing, a word that is no
\* number, and the ids of no session, of the saved one and of a missing one.
LoadArgs == {<< >>, <<"x">>, <<"0">>, <<"2">>, <<"3">>}

\* strconv.ParseInt(a, 10, 64) on these words.
ParseInt(a) ==
    IF a \in {"0", "2", "3"}
    THEN [n |-> CHOOSE k \in 0..3 : ToString(k) = a, err |-> "nil"]
    ELSE [n |-> 0, err |-> "invalid syntax"]

\* The conversation an earlier run of the program has saved.
SavedSession ==
    [id |-> 2,
     messages |-> <<UserMessage(<<"r">>), AssistantMessage(<<"a">>)>>]

\* Store.LoadSession: the transcript of the session, or an error for an id
\* that is not positive, a failing query or a session that does not exist.
LoadSession(id, dbOk) ==
    IF id <= 0 THEN [err |-> "invalid session id", transcript |-> SavedSession]
    ELSE IF ~dbOk THEN [err |-> "select session", transcript |-> SavedSession]
    ELSE IF id # SavedSession.id
    THEN [err |-> "not found", transcript |-> SavedSession]
    ELSE [err |-> "nil", transcript |-> SavedSession]

\* A variant of handleLoadSession: the session is switched and the history
\* emptied before the store has answered.
HandleLoadSessionEager(id, dbOk) ==
    IF ~store
    THEN [err |-> "persistence is disabled",
          sessionID |-> sessionID, history |-> history]
    ELSE LET r == LoadSession(id, dbOk)
         IN  IF r.err # "nil"
             THEN [err |-> r.err, sessionID |-> id, history |-> << >>]
             ELSE [err |-> "nil", sessionID |-> r.transcript.id,
                   history |-> r.transcript.messages]

\* Session.handleLoadSession: the error, and sessionID and history after it.
HandleLoadSession(id, dbOk) ==
    IF ~store
    THEN [err |-> "persistence is disabled",
          sessionID |-> sessionID, history |-> history]
    ELSE LET r == LoadSession(id, dbOk)
         IN  IF r.err # "nil"
             THEN [err |-> r.err, sessionID |-> sessionID, history |-> history]
             ELSE [err |-> "nil", sessionID |-> r.transcript.id,
                   history |-> r.transcript.messages]

\* handleCommand and LoadCommandHandler.Process for "/load" and its fields.
Process(args, dbOk) ==
    IF Len(args) < 1
    THEN [err |-> "usage", sessionID |-> sessionID, history |-> history]
    ELSE IF ParseInt(args[1]).err # "nil"
    THEN [err |-> "invalid session id",
          sessionID |-> sessionID, history |-> history]
    ELSE HandleLoadSession(ParseInt(args[1]).n, dbOk)

\* The user enters /load between two requests. The banner the handler
\* prints is not a write of a stream and is left out of output.
Load ==
    /\ pc = "idle"
    /\ requests < MaxRequests
    /\ \E args \in LoadArgs, dbOk \in BOOLEAN :
          /\ history' = Process(args, dbOk).history
          /\ sessionID' = Process(args, dbOk).sessionID
          /\ prev' = [ended |-> IF Process(args, dbOk).err = "nil"
                                THEN "loaded" ELSE "load failed",
                      inThinking |-> FALSE]
    /\ requests' = requests + 1
    /\ atCall' = [history |-> history, persisted |-> persisted,
                  sessionID |-> sessionID]
    /\ UNCHANGED <<store, persisted, userMsg>>
    /\ UNCHANGED lexVars
    /\ UNCHANGED decVars
    /\ UNCHANGED tuiVars
    /\ UNCHANGED mdRendererErr
    /\ UNCHANGED peerVars
    /\ UNCHANGED cacheVars
    /\ UNCHANGED bufVars
    /\ UNCHANGED rlVars

NextSession ==
    \/ Reject \/ Send \/ Cancelled \/ Load \/ Feed \/ Finish \/ Fail
    \/ Commit \/ Rollback

SpecSession == InitSession /\ [][NextSession]_vars

\* ---------------------------------------------------------------- the TUI

\* A tea.Msg: streamChunkMsg ("chunk"), streamDoneMsg ("done"),
\* sessionCreatedMsg ("sessionCreated"), storeLoadedMsg ("storeLoaded"),
\* sessionLoadedMsg ("sessionLoaded"), errMsg ("err").
Msg(t, c, id) == [type |-> t, chunk |-> c, id |-> id]

\* What may follow "/load" on the TUI's input line: a word that is no
\* number, and the id of the saved session.
ModelLoadArgs == {<<"x">>, <<"2">>}

\* fmt.Sscanf(a, "%d", &sessionID) on these words.
Sscanf(a) ==
    IF a \in {"2"}
    THEN [n |-> CHOOSE k \in 0..3 : ToString(k) = a, err |-> "nil"]
    ELSE [n |-> 0, err |-> "input does not match format"]

\* The input lines of the TUI that are no commands, after SanitizeInput.
ModelPrompts == {<<"q">>}

\* The replies the server streams to the requests of the TUI.
ModelTexts == {<<"a", "b">>}

\* No line-interface session exists: the program was started with the TUI.
NoSession ==
    /\ useColors = FALSE
    /\ renderMarkdown = FALSE
    /\ history = << >>
    /\ store = FALSE
    /\ sessionID = 0
    /\ persisted = << >>
    /\ requests = 0
    /\ userMsg = UserMessage(<< >>)
    /\ atCall = [history |-> << >>, persisted |-> << >>, sessionID |-> 0]
    /\ prev = [ended |-> "none", inThinking |-> FALSE]
    /\ mdRendererErr = "unset"

\* NewModel, and Init's loadStorage command: not issued (storage disabled),
\* or returned with the store or with an error.
InitTUI ==
    /\ NoSession
    /\ IdleStream
    /\ IdleDecoder
    /\ messages = << >>
    /\ streaming = FALSE
    /\ streamContent = << >>
    /\ modelStore = FALSE
    /\ modelSessionID = 0
    /\ ch = "none"
    /\ gpc = "none"
    /\ gerr = "none"
    /\ waiting = FALSE
    /\ creating = {}
    /\ inbox \in {<< >>, <<Msg("storeLoaded", << >>, 0)>>,
                  <<Msg("err", << >>, 0)>>}
    /\ written = << >>
    /\ sent = 0
    /\ loading = {}
    /\ loads = 0
    /\ prompts = << >>
    /\ NoPeer
    /\ NoCache
    /\ NoBuffered
    /\ NoLimiter

\* The id the store gives to the n-th session this run creates: the ids
\* after the saved session's.
NewSessionID(n) == SavedSession.id + n

\* A variant of the test below: Enter is handled whether or not a stream runs.
AcceptsInputAlways == TRUE

\* Update(KeyEnter) handles the input line only while no stream runs.
AcceptsInput == ~streaming

\* KeyEnter with an input that is no command while no stream runs:
\* Model.sendMessage appends the user message, issues the command that
\* creates the session if there is a store and no session yet, and starts
\* the stream: the goroutine that runs ChatStream and waitForChunk.
EnterSend ==
    /\ AcceptsInput
    /\ sent + loads < MaxRequests
    /\ \E input \in ModelPrompts, t \in ModelTexts :
          /\ messages' = Append(messages, UserMessage(input))
          /\ prompts' = Append(prompts,
                [prompt |-> input,
                 sessionID |-> IF modelSessionID # 0 THEN modelSessionID
                               ELSE IF modelStore THEN NewSessionID(sent + 1)
                               ELSE 0])
          /\ text' = t
    /\ creating' = IF modelStore /\ modelSessionID = 0
                   THEN creating \cup {NewSessionID(sent + 1)} ELSE creating
    /\ streaming' = TRUE
    /\ streamContent' = << >>
    /\ ch' = "open"
    /\ gpc' = "running"
    /\ gerr' = "none"
    /\ waiting' = TRUE
    /\ fed' = << >>
    /\ sent' = sent + 1
    /\ UNCHANGED <<modelStore, modelSessionID, inbox, written, loading,
                   loads>>
    /\ UNCHANGED <<useColors, renderMarkdown, fullResponse, buffer,
                   afterThinkingContent, inThinking, thinkingStarted,
                   thinkingClosed, frameCount, output, style, modes, pc,
                   reply, mdCalls>>
    /\ UNCHANGED decVars
    /\ UNCHANGED sessVars
    /\ UNCHANGED peerVars
    /\ UNCHANGED cacheVars
    /\ UNCHANGED bufVars
    /\ UNCHANGED rlVars

\* The callback of startStream sends a chunk on ch and waitForChunk
\* receives it: a streamChunkMsg is on its way to Update.
GoCallback ==
    /\ gpc = "running"
    /\ waiting
    /\ Pending # << >>
    /\ \E n \in 1..Len(Pending) :
          /\ Len(fed) + 1 = MaxChunks => n = Len(Pending)
          /\ fed' = Append(fed, SliceTo(Pending, n))
          /\ inbox' = Append(inbox, Msg("chunk", SliceTo(Pending, n), 0))
    /\ waiting' = FALSE
    /\ UNCHANGED <<messages, streaming, streamContent, modelStore,
                   modelSessionID, ch, gpc, gerr, creating, written, sent, loading, loads,
                   prompts>>
    /\ UNCHANGED <<useColors, renderMarkdown, text, fullResponse, buffer,
                   afterThinkingContent, inThinking, thinkingStarted,
                   thinkingClosed, frameCount, output, style, modes, pc,
                   reply, mdCalls>>
    /\ UNCHANGED decVars
    /\ UNCHANGED sessVars
    /\ UNCHANGED peerVars
    /\ UNCHANGED cacheVars
    /\ UNCHANGED bufVars
    /\ UNCHANGED rlVars

\* A variant of GoReturn: the goroutine ends without closing ch.
GoReturnLeavingOpen ==
    /\ gpc = "running"
    /\ \E e \in {"nil", "error"} :
          /\ e = "nil" => Pending = << >>
          /\ gerr' = e
    /\ gpc' = "exited"
    /\ UNCHANGED <<messages, streaming, streamContent, modelStore,
                   modelSessionID, ch, waiting, creating, inbox, written,
                   sent, loading, loads, prompts>>
    /\ UNCHANGED lexVars
    /\ UNCHANGED decVars
    /\ UNCHANGED sessVars
    /\ UNCHANGED peerVars
    /\ UNCHANGED cacheVars
    /\ UNCHANGED bufVars
    /\ UNCHANGED rlVars

\* ChatStream returns to the goroutine, with nil when the reply is complete
\* or with an error at any time; the error is dropped and ch is closed.
GoReturn ==
    /\ gpc = "running"
    /\ \E e \in {"nil", "error"} :
          /\ e = "nil" => Pending = << >>
          /\ gerr' = e
    /\ ch' = "closed"
    /\ gpc' = "exited"
    /\ UNCHANGED <<messages, streaming, streamContent, modelStore,
                   modelSessionID, waiting, creating, inbox, written, sent, loading, loads,
                   prompts>>
    /\ UNCHANGED lexVars
    /\ UNCHANGED decVars
    /\ UNCHANGED sessVars
    /\ UNCHANGED peerVars
    /\ UNCHANGED cacheVars
    /\ UNCHANGED bufVars
    /\ UNCHANGED rlVars

\* waitForChunk finds ch closed: a streamDoneMsg is on its way to Update.
RecvClosed ==
    /\ waiting
    /\ ch = "closed"
    /\ waiting' = FALSE
    /\ inbox' = Append(inbox, Msg("done", << >>, 0))
    /\ UNCHANGED <<messages, streaming, streamContent, modelStore,
                   modelSessionID, ch, gpc, gerr, creating, written, sent, loading, loads,
                   prompts>>
    /\ UNCHANGED lexVars
    /\ UNCHANGED decVars
    /\ UNCHANGED sessVars
    /\ UNCHANGED peerVars
    /\ UNCHANGED cacheVars
    /\ UNCHANGED bufVars
    /\ UNCHANGED rlVars

\* The command that creates the session returns: a sessionCreatedMsg with
\* the id of the new session, or an errMsg.
SessionCmdReturns ==
    /\ \E id \in creating, ok \in BOOLEAN :
          /\ creating' = creating \ {id}
          /\ inbox' = Append(inbox, IF ok THEN Msg("sessionCreated", << >>, id)
                                          ELSE Msg("err", << >>, 0))
    /\ UNCHANGED <<messages, streaming, streamContent, modelStore,
                   modelSessionID, ch, gpc, gerr, waiting, written, sent, loading, loads,
                   prompts>>
    /\ UNCHANGED lexVars
    /\ UNCHANGED decVars
    /\ UNCHANGED sessVars
    /\ UNCHANGED peerVars
    /\ UNCHANGED cacheVars
    /\ UNCHANGED bufVars
    /\ UNCHANGED rlVars

\* Update(streamChunkMsg): append the chunk and wait for the next one.
UpdateChunk ==
    /\ inbox # << >>
    /\ Head(inbox).type = "chunk"
    /\ streamContent' = streamContent \o Head(inbox).chunk
    /\ waiting' = TRUE
    /\ inbox' = Tail(inbox)
    /\ UNCHANGED <<messages, streaming, modelStore, modelSessionID, ch, gpc,
                   gerr, creating, written, sent, loading, loads,
                   prompts>>
    /\ UNCHANGED lexVars
    /\ UNCHANGED decVars
    /\ UNCHANGED sessVars
    /\ UNCHANGED peerVars
    /\ UNCHANGED cacheVars
    /\ UNCHANGED bufVars
    /\ UNCHANGED rlVars

\* persistLastExchange on the model as Update(streamDoneMsg) starts it: the
\* last two messages go to the store under the model's sessionID.
PersistLastExchange(msgs) ==
    IF ~modelStore \/ Len(msgs) < 2 THEN written
    ELSE Append(written, [sessionID |-> modelSessionID,
                          batch |-> <<msgs[Len(msgs) - 1], msgs[Len(msgs)]>>,
                          stream |-> sent])

\* Update(streamDoneMsg): the text received becomes an assistant message,
\* which is persisted if there is a store.
UpdateDone ==
    /\ inbox # << >>
    /\ Head(inbox).type = "done"
    /\ streaming' = FALSE
    /\ messages' = Append(messages, AssistantMessage(streamContent))
    /\ written' = PersistLastExchange(messages')
    /\ streamContent' = << >>
    /\ inbox' = Tail(inbox)
    /\ UNCHANGED <<modelStore, modelSessionID, ch, gpc, gerr, waiting,
                   creating, sent, loading, loads,
                   prompts>>
    /\ UNCHANGED lexVars
    /\ UNCHANGED decVars
    /\ UNCHANGED sessVars
    /\ UNCHANGED peerVars
    /\ UNCHANGED cacheVars
    /\ UNCHANGED bufVars
    /\ UNCHANGED rlVars

\* Update(sessionCreatedMsg)
UpdateSessionCreated ==
    /\ inbox # << >>
    /\ Head(inbox).type = "sessionCreated"
    /\ modelSessionID' = Head(inbox).id
    /\ inbox' = Tail(inbox)
    /\ UNCHANGED <<messages, streaming, streamContent, modelStore, ch, gpc,
                   gerr, waiting, creating, written, sent, loading, loads,
                   prompts>>
    /\ UNCHANGED lexVars
    /\ UNCHANGED decVars
    /\ UNCHANGED sessVars
    /\ UNCHANGED peerVars
    /\ UNCHANGED cacheVars
    /\ UNCHANGED bufVars
    /\ UNCHANGED rlVars

\* Update(storeLoadedMsg)
UpdateStoreLoaded ==
    /\ inbox # << >>
    /\ Head(inbox).type = "storeLoaded"
    /\ modelStore' = TRUE
    /\ inbox' = Tail(inbox)
    /\ UNCHANGED <<messages, streaming, streamContent, modelSessionID, ch,
                   gpc, gerr, waiting, creating, written, sent, loading, loads,
                   prompts>>
    /\ UNCHANGED lexVars
    /\ UNCHANGED decVars
    /\ UNCHANGED sessVars
    /\ UNCHANGED peerVars
    /\ UNCHANGED cacheVars
    /\ UNCHANGED bufVars
    /\ UNCHANGED rlVars

\* KeyEnter with a "/load" line while no stream runs: handleCommand and
\* handleLoadCommand show an error if the id is missing or no number or
\* there is no store, and else issue the command that loads the session.
EnterLoad ==
    /\ AcceptsInput
    /\ sent + loads < MaxRequests
    /\ loads' = loads + 1
    /\ \E args \in ModelLoadArgs :
          loading' =
              IF Len(args) >= 1 /\ modelStore /\ Sscanf(args[1]).err = "nil"
              THEN loading \cup {[n |-> loads + 1, id |-> Sscanf(args[1]).n]}
              ELSE loading
    /\ UNCHANGED <<messages, streaming, streamContent, modelStore,
                   modelSessionID, ch, gpc, gerr, waiting, creating, inbox,
                   written, sent, prompts>>
    /\ UNCHANGED lexVars
    /\ UNCHANGED decVars
    /\ UNCHANGED sessVars
    /\ UNCHANGED peerVars
    /\ UNCHANGED cacheVars
    /\ UNCHANGED bufVars
    /\ UNCHANGED rlVars

\* The command that loads the session returns: a sessionLoadedMsg with the
\* transcript, or an errMsg.
LoadCmdReturns ==
    /\ \E l \in loading, dbOk \in BOOLEAN :
          /\ loading' = loading \ {l}
          /\ inbox' = Append(inbox,
                IF LoadSession(l.id, dbOk).err = "nil"
                THEN Msg("sessionLoaded", << >>,
                         LoadSession(l.id, dbOk).transcript.id)
                ELSE Msg("err", << >>, 0))
    /\ UNCHANGED <<messages, streaming, streamContent, modelStore,
                   modelSessionID, ch, gpc, gerr, waiting, creating, written,
                   sent, loads, prompts>>
    /\ UNCHANGED lexVars
    /\ UNCHANGED decVars
    /\ UNCHANGED sessVars
    /\ UNCHANGED peerVars
    /\ UNCHANGED cacheVars
    /\ UNCHANGED bufVars
    /\ UNCHANGED rlVars

\* Update(sessionLoadedMsg): handleSessionLoaded replaces the messages by
\* those of the transcript and the session by the transcript's.
UpdateSessionLoaded ==
    /\ inbox # << >>
    /\ Head(inbox).type = "sessionLoaded"
    /\ messages' = SavedSession.messages
    /\ modelSessionID' = Head(inbox).id
    /\ inbox' = Tail(inbox)
    /\ UNCHANGED <<streaming, streamContent, modelStore, ch, gpc, gerr,
                   waiting, creating, written, sent, loading, loads, prompts>>
    /\ UNCHANGED lexVars
    /\ UNCHANGED decVars
    /\ UNCHANGED sessVars
    /\ UNCHANGED peerVars
    /\ UNCHANGED cacheVars
    /\ UNCHANGED bufVars
    /\ UNCHANGED rlVars

\* Update(errMsg): the error is shown.
UpdateErrMsg ==
    /\ inbox # << >>
    /\ Head(inbox).type = "err"
    /\ inbox' = Tail(inbox)
    /\ UNCHANGED <<messages, streaming, streamContent, modelStore,
                   modelSessionID, ch, gpc, gerr, waiting, creating, written,
                   sent, loading, loads,
                   prompts>>
    /\ UNCHANGED lexVars
    /\ UNCHANGED decVars
    /\ UNCHANGED sessVars
    /\ UNCHANGED peerVars
    /\ UNCHANGED cacheVars
    /\ UNCHANGED bufVars
    /\ UNCHANGED rlVars

NextTUI ==
    \/ EnterSend \/ GoCallback \/ GoReturn \/ RecvClosed \/ SessionCmdReturns
    \/ UpdateChunk \/ UpdateDone \/ UpdateSessionCreated
    \/ UpdateStoreLoaded \/ UpdateErrMsg
    \/ EnterLoad \/ LoadCmdReturns \/ UpdateSessionLoaded

SpecTUI == InitTUI /\ [][NextTUI]_vars

\* The TUI when what can run does run: the goroutine of the stream goes on
\* until ChatStream has returned, a waitForChunk command that can receive
\* does, the session and load commands return, and the program's loop hands
\* every message to Update.  Nothing is assumed of the user.
SpecTUILive ==
    /\ InitTUI
    /\ [][NextTUI]_vars
    /\ WF_vars(GoCallback \/ GoReturn)
    /\ WF_vars(RecvClosed)
    /\ WF_vars(SessionCmdReturns \/ LoadCmdReturns)
    /\ WF_vars(UpdateChunk \/ UpdateDone \/ UpdateSessionCreated
                  \/ UpdateStoreLoaded \/ UpdateSessionLoaded
                  \/ UpdateErrMsg)

\* ------------------------------------------------- two concurrent streams

\* The replies streamed to the two invocations.
PairTexts == {<<"a">>, OpenThink \o CloseThink}
PeerTexts == {OpenThink \o <<"a">>}

\* Two invocations of streamResponse in sessions set up alike, each at its
\* ChatStream call.
InitPair ==
    /\ useColors \in BOOLEAN
    /\ renderMarkdown = TRUE
    /\ text \in PairTexts
    /\ fed = << >>
    /\ InitLocals
    /\ InFlight
    /\ NoTUI
    /\ IdleDecoder
    /\ peerText \in PeerTexts
    /\ peerFed = << >>
    /\ peer = NewStream(useColors)
    /\ NoCache
    /\ NoBuffered
    /\ NoLimiter

\* What is still to come for the second invocation.
PeerPending == SliceFrom(peerText, Len(Flatten(peerFed)))

\* A variant of PeerState: buffer and inThinking are shared with the other
\* invocation, as package-level variables would be.
PeerStateShared == [peer EXCEPT !.buffer = buffer, !.inThinking = inThinking]

\* The variables the callback of the second invocation closes over: the
\* locals of its own streamResponse call.
PeerState == peer

\* ChatStream delivers the next chunk to the second invocation.
PeerFeed ==
    /\ PeerPending # << >>
    /\ \E n \in 1..Len(PeerPending) :
          /\ Len(peerFed) + 1 = MaxChunks => n = Len(PeerPending)
          /\ peerFed' = Append(peerFed, SliceTo(PeerPending, n))
          /\ peer' = Callback(PeerState, SliceTo(PeerPending, n))
    /\ UNCHANGED peerText
    /\ UNCHANGED lexVars
    /\ UNCHANGED decVars
    /\ UNCHANGED sessVars
    /\ UNCHANGED tuiVars
    /\ UNCHANGED cacheVars
    /\ UNCHANGED bufVars
    /\ UNCHANGED rlVars

NextPair == Feed \/ PeerFeed

SpecPair == InitPair /\ [][NextPair]_vars

\* ----------------------------------------------------- the response cache

\* const cacheSize
cacheSize == 128


\* The n-th request that is made once only.
FreshRequest(n) ==
    [messages |-> <<"fresh", n>>, model |-> <<"g", "p", "t">>,
     temperature |-> "0.7"]

\* json.Marshal of a float64: an error for an infinity or a NaN.
IsFinite(temperature) == temperature \notin {"+Inf", "-Inf", "NaN"}

\* generateCacheKey: the SHA-256 sum of the JSON encoding of messages, model
\* and temperature, taken as free of collisions; << >> stands for the empty
\* key returned with an error when the encoding fails.
generateCacheKey(req) ==
    IF IsFinite(req.temperature)
    THEN <<"sha256", <<"messages", req.messages, "model", req.model,
                       "temperature", req.temperature>>>>
    ELSE << >>

\* json.Marshal(reqBody): the temperature is left out for an o3 model.
EncodeFails(req) ==
    ~OccursAt(req.model, 0, <<"o", "3">>) /\ ~IsFinite(req.temperature)

\* The positions of a key in the cache.
Positions(c, key) == {i \in 1..Len(c) : c[i].key = key}

\* The cache without the entry at position i.
Without(c, i) == SubSeq(c, 1, i - 1) \o SubSeq(c, i + 1, Len(c))

\* A variant of Get: every lookup misses.
GetNever(c, key) == [ok |-> FALSE, value |-> << >>, cache |-> c]

\* lru.Cache.Get: the value, and the entry made the most recently used one.
Get(c, key) ==
    IF Positions(c, key) = {}
    THEN [ok |-> FALSE, value |-> << >>, cache |-> c]
    ELSE LET i == CHOOSE i \in Positions(c, key) : TRUE
         IN  [ok |-> TRUE, value |-> c[i].value,
              cache |-> Append(Without(c, i), c[i])]

\* lru.Cache.Add: the entry is the most recently used one; the oldest entry
\* goes when the cache holds more than cacheSize.
Add(c, key, value) ==
    LET e == [key |-> key, value |-> value]
        c1 == IF Positions(c, key) = {} THEN Append(c, e)
              ELSE Append(Without(c, CHOOSE i \in Positions(c, key) : TRUE), e)
    IN  IF Len(c1) > cacheSize THEN Tail(c1) ELSE c1

\* Client.Chat on a client with cache c that has issued n HTTP requests,
\* for a request and an outcome of the HTTP exchange ("ok", or "error" for
\* a transport error, an error status or an undecodable body): the
\* response, the error, whether a request was issued, and the cache.  The
\* server answers its k-th request with a response of its own.
ChatResult(c, n, req, outcome) ==
    LET cacheKey == generateCacheKey(req)
        got == IF cacheKey # << >> THEN Get(c, cacheKey)
               ELSE [ok |-> FALSE, value |-> << >>, cache |-> c]
    IN  IF got.ok
        THEN [response |-> got.value, err |-> "nil", http |-> FALSE,
              cache |-> got.cache]
        ELSE IF EncodeFails(req)
        THEN [response |-> << >>, err |-> "encode request", http |-> FALSE,
              cache |-> c]
        ELSE IF outcome # "ok"
        THEN [response |-> << >>, err |-> outcome, http |-> TRUE,
              cache |-> c]
        ELSE LET response == <<"response", n + 1>>
             IN  [response |-> response, err |-> "nil", http |-> TRUE,
                  cache |-> IF cacheKey # << >>
                            THEN Add(c, cacheKey, response) ELSE c]

\* The keys the cache holds.
Keys(c) == {c[i].key : i \in 1..Len(c)}

\* A call of Chat, with what it leaves for the calls after it.
Chat(req, outcome) ==
    LET r == ChatResult(cache, httpRequests, req, outcome)
    IN  /\ cache' = r.cache
        /\ httpRequests' = httpRequests + (IF r.http THEN 1 ELSE 0)
        /\ earlier' =
              [q \in NamedRequests |->
                  IF q = req /\ r.err = "nil" /\ r.http
                  THEN [known |-> TRUE, response |-> r.response,
                        evicted |-> FALSE]
                  ELSE IF generateCacheKey(q) \in Keys(cache) \ Keys(r.cache)
                  THEN [earlier[q] EXCEPT !.evicted = TRUE]
                  ELSE earlier[q]]
        /\ last' = [kind |-> IF req \in NamedRequests THEN "named" ELSE "fresh",
                    req |-> req,
                    response |-> r.response,
                    err |-> r.err,
                    http |-> r.http,
                    changed |-> Keys(r.cache) # Keys(cache),
                    prior |-> IF req \in NamedRequests THEN earlier[req]
                              ELSE NoPrior]

\* The cache of a client that has answered the ordinary request and then k
\* one-off requests, k less than cacheSize: an entry for each, in this order.
Warmed(k) ==
    [i \in 1..(k + 1) |->
        [key |-> generateCacheKey(IF i = 1 THEN Ordinary
                                  ELSE FreshRequest(i - 1)),
         value |-> <<"response", i>>]]

\* A new client, or a client that has answered the ordinary request and
\* then one-off requests until its cache was full, in a session that
\* streams nothing.
InitCache ==
    /\ useColors = FALSE
    /\ renderMarkdown = TRUE
    /\ IdleStream
    /\ IdleDecoder
    /\ history = << >>
    /\ store = FALSE
    /\ sessionID = 0
    /\ persisted = << >>
    /\ requests = 0
    /\ userMsg = UserMessage(<< >>)
    /\ atCall = [history |-> << >>, persisted |-> << >>, sessionID |-> 0]
    /\ prev = [ended |-> "none", inThinking |-> FALSE]
    /\ mdRendererErr = "unset"
    /\ NoTUI
    /\ NoPeer
    /\ NoBuffered
    /\ NoLimiter
    /\ \/ NoCache
       \/ /\ cache = Warmed(cacheSize - 1)
          /\ httpRequests = cacheSize
          /\ warm = cacheSize - 1
          /\ fresh = cacheSize - 1
          /\ named = 0
          /\ earlier = [NoEarlier EXCEPT
                           ![Ordinary] = [known |-> TRUE,
                                          response |-> <<"response", 1>>,
                                          evicted |-> FALSE]]
          /\ last = [kind |-> "none"]

\* Chat is called with a request that is made again later.
ChatNamed ==
    /\ named < MaxCalls
    /\ \E req \in NamedRequests, outcome \in {"ok", "error"} :
          Chat(req, outcome)
    /\ named' = named + 1
    /\ UNCHANGED <<warm, fresh>>
    /\ UNCHANGED <<lexVars, decVars, sessVars, tuiVars, peerVars>>
    /\ UNCHANGED bufVars
    /\ UNCHANGED rlVars

\* Chat is called with a request that is made this once, and succeeds.
ChatFresh ==
    /\ fresh < warm + MaxFresh
    /\ Chat(FreshRequest(fresh + 1), "ok")
    /\ fresh' = fresh + 1
    /\ UNCHANGED <<warm, named>>
    /\ UNCHANGED <<lexVars, decVars, sessVars, tuiVars, peerVars>>
    /\ UNCHANGED bufVars
    /\ UNCHANGED rlVars

NextCache == ChatNamed \/ ChatFresh

SpecCache == InitCache /\ [][NextCache]_vars

\* ------------------------------------------------------- the rate limiter

\* The configurations handed to NewRateLimiter, with durations in ticks of
\* the clock.  NewTicker needs a clean-up interval above zero.
RateLimitConfigs ==
    [maxRequests : 0..2, windowSize : 1..2, cleanupInterval : 1..2]

\* The time stamps of times that are after cutoff, in their order.
ValidRequests(times, cutoff) == SelectSeq(times, LAMBDA t : t > cutoff)

\* The body of Allow for the key's entry r at time now: the entry it leaves
\* and what it returns.
AllowAt(r, now) ==
    IF ~r.exists
    THEN [requests |-> [exists |-> TRUE, times |-> <<now>>], ok |-> TRUE]
    ELSE LET validRequests ==
                 ValidRequests(r.times, now - rlConfig.windowSize)
         IN  IF Len(validRequests) < rlConfig.maxRequests
             THEN [requests |-> [exists |-> TRUE,
                                 times |-> Append(validRequests, now)],
                   ok |-> TRUE]
             ELSE [requests |-> [exists |-> TRUE, times |-> validRequests],
                   ok |-> FALSE]

\* The body of performCleanup for the key's entry r at time now.
CleanupAt(r, now) ==
    IF ~r.exists THEN r
    ELSE LET validRequests ==
                 ValidRequests(r.times, now - rlConfig.cleanupInterval)
         IN  IF validRequests = << >> THEN NoKey
             ELSE [exists |-> TRUE, times |-> validRequests]

\* NewRateLimiter with some configuration, at time 0.
InitLimiter ==
    /\ NoSession
    /\ IdleStream
    /\ IdleDecoder
    /\ NoTUI
    /\ NoPeer
    /\ NoCache
    /\ NoBuffered
    /\ rlConfig \in RateLimitConfigs
    /\ rlNow = 0
    /\ rlRequests = NoKey
    /\ granted = << >>
    /\ mu = [readers |-> 0, w |-> "none"]
    /\ rlpc = [p \in Callers |-> "idle"]

\* Time passes.
Tick ==
    /\ rlNow < MaxTime
    /\ rlNow' = rlNow + 1
    /\ UNCHANGED <<rlConfig, rlRequests, granted, mu, rlpc>>
    /\ UNCHANGED <<lexVars, decVars, sessVars, tuiVars, peerVars, cacheVars,
                   bufVars>>

\* A call of Allow with the client's key, from Lock to Unlock.
Allow ==
    /\ rlRequests' = AllowAt(rlRequests, rlNow).requests
    /\ granted' = IF AllowAt(rlRequests, rlNow).ok
                  THEN Append(granted, rlNow) ELSE granted
    /\ UNCHANGED <<rlConfig, rlNow, mu, rlpc>>
    /\ UNCHANGED <<lexVars, decVars, sessVars, tuiVars, peerVars, cacheVars,
                   bufVars>>

\* A run of performCleanup, from Lock to Unlock.
performCleanup ==
    /\ rlRequests' = CleanupAt(rlRequests, rlNow)
    /\ UNCHANGED <<rlConfig, rlNow, granted, mu, rlpc>>
    /\ UNCHANGED <<lexVars, decVars, sessVars, tuiVars, peerVars, cacheVars,
                   bufVars>>

NextLimiter == Tick \/ Allow \/ performCleanup

SpecLimiter == InitLimiter /\ [][NextLimiter]_vars

\* The goroutines of the limiter step by step at one time.  mu is a
\* sync.RWMutex: Lock first shuts out other writers and new readers, then
\* waits until the readers that hold the lock have released it; RLock waits
\* while a writer holds or awaits the lock.

\* rl.mu.Lock() of writer p, up to the wait for the readers.
Lock(p) ==
    /\ rlpc[p] = "idle"
    /\ mu.w = "none"
    /\ mu' = [mu EXCEPT !.w = p]
    /\ rlpc' = [rlpc EXCEPT ![p] = "pending"]
    /\ UNCHANGED <<rlConfig, rlNow, rlRequests, granted>>
    /\ UNCHANGED <<lexVars, decVars, sessVars, tuiVars, peerVars, cacheVars,
                   bufVars>>

\* Writer p has the lock and runs the body of its method.
Locked(p) ==
    /\ rlpc[p] = "pending"
    /\ mu.readers = 0
    /\ rlpc' = [rlpc EXCEPT ![p] = "holding"]
    /\ rlRequests' = CASE p = "Allow" -> AllowAt(rlRequests, rlNow).requests
                       [] p = "Reset" -> NoKey
                       [] OTHER -> CleanupAt(rlRequests, rlNow)
    /\ granted' = IF p = "Allow" /\ AllowAt(rlRequests, rlNow).ok
                  THEN Append(granted, rlNow) ELSE granted
    /\ UNCHANGED <<rlConfig, rlNow, mu>>
    /\ UNCHANGED <<lexVars, decVars, sessVars, tuiVars, peerVars, cacheVars,
                   bufVars>>

\* The deferred rl.mu.Unlock() of writer p.
Unlock(p) ==
    /\ rlpc[p] = "holding"
    /\ mu' = [mu EXCEPT !.w = "none"]
    /\ rlpc' = [rlpc EXCEPT ![p] = "done"]
    /\ UNCHANGED <<rlConfig, rlNow, rlRequests, granted>>
    /\ UNCHANGED <<lexVars, decVars, sessVars, tuiVars, peerVars, cacheVars,
                   bufVars>>

\* rl.mu.RLock() can return: no writer holds or awaits the lock.
CanRLock == mu.w = "none"

\* GetStats takes the read lock and looks the key up: without an entry it
\* is about to return, with one it counts and is about to call
\* GetRemainingTime.
GetStats ==
    /\ rlpc["GetStats"] = "idle"
    /\ CanRLock
    /\ mu' = [mu EXCEPT !.readers = @ + 1]
    /\ rlpc' = [rlpc EXCEPT !["GetStats"] =
                   IF rlRequests.exists THEN "calling" ELSE "returning"]
    /\ UNCHANGED <<rlConfig, rlNow, rlRequests, granted>>
    /\ UNCHANGED <<lexVars, decVars, sessVars, tuiVars, peerVars, cacheVars,
                   bufVars>>

\* GetRemainingTime, called by GetStats, takes the read lock.
GetRemainingTime ==
    /\ rlpc["GetStats"] = "calling"
    /\ CanRLock
    /\ mu' = [mu EXCEPT !.readers = @ + 1]
    /\ rlpc' = [rlpc EXCEPT !["GetStats"] = "inside"]
    /\ UNCHANGED <<rlConfig, rlNow, rlRequests, granted>>
    /\ UNCHANGED <<lexVars, decVars, sessVars, tuiVars, peerVars, cacheVars,
                   bufVars>>

\* GetRemainingTime returns: its deferred RUnlock.
GetRemainingTimeReturns ==
    /\ rlpc["GetStats"] = "inside"
    /\ mu' = [mu EXCEPT !.readers = @ - 1]
    /\ rlpc' = [rlpc EXCEPT !["GetStats"] = "returning"]
    /\ UNCHANGED <<rlConfig, rlNow, rlRequests, granted>>
    /\ UNCHANGED <<lexVars, decVars, sessVars, tuiVars, peerVars, cacheVars,
                   bufVars>>

\* GetStats returns: its deferred RUnlock.
GetStatsReturns ==
    /\ rlpc["GetStats"] = "returning"
    /\ mu' = [mu EXCEPT !.readers = @ - 1]
    /\ rlpc' = [rlpc EXCEPT !["GetStats"] = "done"]
    /\ UNCHANGED <<rlConfig, rlNow, rlRequests, granted>>
    /\ UNCHANGED <<lexVars, decVars, sessVars, tuiVars, peerVars, cacheVars,
                   bufVars>>

NextLocks ==
    \/ \E p \in Writers : Lock(p) \/ Locked(p) \/ Unlock(p)
    \/ GetStats \/ GetRemainingTime \/ GetRemainingTimeReturns
    \/ GetStatsReturns

SpecLocks == InitLimiter /\ [][NextLocks]_vars

\* ------------------------------------------------------ claims: tag lexer

\* The style of each character of OutText, in order.
RECURSIVE OutStyles(_)
OutStyles(out) ==
    IF out = << >> THEN << >>
    ELSE (IF Head(out).style = "Loading" THEN << >>
          ELSE [i \in 1..Len(Head(out).text) |-> Head(out).style])
         \o OutStyles(Tail(out))

Delimiters == {OpenThink, OpenThinking, CloseThink, CloseThinking}

\* The text holds exactly one opening delimiter and, after it, exactly one
\* closing delimiter.
HasOneRegion(t) ==
    /\ Cardinality(MatchStarts(thinkTagPattern, t)) = 1
    /\ Cardinality(MatchStarts(thinkClosePattern, t)) = 1
    /\ \A i \in MatchStarts(thinkTagPattern, t) :
          \A j \in MatchStarts(thinkClosePattern, t) : i < j

\* What a stream leaves behind for the second pass.
Triple(st) ==
    <<st.fullResponse, st.afterThinkingContent,
      st.thinkingStarted, st.thinkingClosed>>

\* C1: when the stream has ended, the text the callback wrote to the sink,
\* in the order written and whatever its style, is the response text,
\* however the text was cut into chunks.
C1_RoundTrip == pc = "done" => OutText(output) = text

\* C2: a text with one complete reasoning region ends the stream with the
\* same (fullResponse, afterThinkingContent, thinkingStarted, thinkingClosed)
\* under every chunking as when it is fed as a single chunk.
C2_ChunkInsensitive ==
    (pc = "done" /\ HasOneRegion(text)) =>
        Triple(Locals) = Triple(Callback(NewStream(useColors), text))

\* C4: afterThinkingContent is a suffix of fullResponse in every state.
C4_AfterIsSuffix == IsSuffix(afterThinkingContent, fullResponse)

\* C4 witness: text was collected after a closing tag, some of it by the
\* branch for chunks that arrive after the tag, and it is not the whole reply.
C4_Witness ==
    /\ thinkingClosed
    /\ afterThinkingContent # << >>
    /\ buffer = << >>
    /\ Len(afterThinkingContent) < Len(fullResponse)
    /\ Len(fed) = 3
    /\ ~MatchString(thinkClosePattern, fed[3])

\* C5: a text without any delimiter literal ends the stream with
\* thinkingStarted and thinkingClosed false and afterThinkingContent empty,
\* with colours on as well as off.
C5_NoTagPassthrough ==
    (pc = "done" /\ \A d \in Delimiters : ~Contains(text, d)) =>
        /\ ~thinkingStarted
        /\ ~thinkingClosed
        /\ afterThinkingContent = << >>

\* C6: the two-region example fed as a single chunk takes the mode through
\* Normal, Reasoning, Normal, Reasoning, Normal and leaves "bd" as the text
\* after reasoning.
C6_MultipleDelimiters ==
    (pc = "done" /\ text = TwoRegions /\ fed = <<TwoRegions>>) =>
        /\ modes = <<"Normal", "Reasoning", "Normal", "Reasoning", "Normal">>
        /\ afterThinkingContent = <<"b", "d">>

\* C7: when the stream has ended in normal mode and the text ends in a
\* proper prefix of an opening delimiter, the sink's text ends in that prefix
\* and none of it was written in the reasoning style.
C7_EndOfStreamFlush ==
    \A p \in OpenPrefixes :
        (pc = "done" /\ ~inThinking /\ IsSuffix(p, text)) =>
            /\ IsSuffix(p, OutText(output))
            /\ \A i \in 1..Len(p) :
                  OutStyles(output)[Len(OutText(output)) - Len(p) + i]
                      # "Magenta"

\* C7 witness: the stream "<thi", a single chunk, has ended.
C7_Witness ==
    /\ pc = "done"
    /\ text = <<"<", "t", "h", "i">>
    /\ fed = <<text>>
    /\ ~inThinking

\* -------------------------------------------------------- claims: decoder

Range(f) == {f[i] : i \in DOMAIN f}

\* The line is "data: [DONE]".
IsDone(line) ==
    /\ line.pre = "data: "
    /\ line.payload.kind = "text"
    /\ line.payload.s = "[DONE]"

\* The line is a data line that carries a non-empty content increment.
IsValidDelta(line) ==
    /\ line.pre = "data: "
    /\ line.payload.kind = "json"
    /\ line.payload.choices # << >>
    /\ line.payload.choices[1] # << >>

\* The line is a data line, not the sentinel, whose payload is no JSON, has
\* no choices or has no content.
IsTolerated(line) ==
    /\ line.pre = "data: "
    /\ ~IsDone(line)
    /\ ~IsValidDelta(line)

\* The content increments of the data lines of ls that precede the sentinel.
RECURSIVE Expected(_)
Expected(ls) ==
    IF ls = << >> \/ IsDone(Head(ls)) THEN << >>
    ELSE (IF IsValidDelta(Head(ls))
          THEN <<Head(ls).payload.choices[1]>> ELSE << >>)
         \o Expected(Tail(ls))

\* C3: in decodeStream and in streamResponse alike the accumulated text is
\* the concatenation of the tokens delivered so far, and a stream that ends
\* without error makes streamResponse return that text.
C3_FullTextAccumulates ==
    /\ fullContent = Flatten(fed)
    /\ fullResponse = Flatten(fed)
    /\ dpc = "returned" => dret = Flatten(fed)
    /\ pc = "done" => reply = Flatten(fed)

\* C3 witness: a reply delivered in three tokens, the last one after the
\* reasoning region was closed, has been returned.
C3_Witness ==
    /\ pc = "done"
    /\ Len(fed) = 3
    /\ thinkingClosed
    /\ afterThinkingContent # << >>
    /\ reply = fullResponse

\* C8: a sentinel line that has been read is the last line read; the
\* callback was called for lines before it only, and decodeStream has
\* returned the accumulated content and no error.
C8_SentinelStops ==
    \A i \in 1..pos :
        IsDone(body.lines[i]) =>
            /\ i = pos
            /\ \A k \in 1..Len(calls) : calls[k] < i
            /\ dpc = "returned"
            /\ dret = fullContent
            /\ derr = "nil"

\* C9: a data line whose payload is no JSON, has no choices or has no
\* content led to no call of the callback and to no return: the decoder
\* is at a later line or still scanning, unless the scanner itself ended
\* (no further line, or the next one too long), and every valid delta read
\* after it was delivered.
C9_MalformedTolerated ==
    \A i \in 1..pos :
        IsTolerated(body.lines[i]) =>
            /\ i \notin Range(calls)
            /\ (dpc = "returned" /\ pos = i) =>
                  /\ i = Len(body.lines) \/ body.lines[i + 1].long
                  /\ derr # "nil" =>
                        \/ i < Len(body.lines)
                        \/ body.ending = "read"
            /\ \A j \in (i + 1)..pos :
                  IsValidDelta(body.lines[j]) => j \in Range(calls)

\* C9 witness: an invalid JSON payload was read, a later valid delta was
\* delivered, and decodeStream returned without error.
C9_Witness ==
    /\ dpc = "returned"
    /\ derr = "nil"
    /\ \E i \in 1..pos : \E j \in (i + 1)..pos :
          /\ IsTolerated(body.lines[i])
          /\ body.lines[i].payload.kind = "text"
          /\ IsValidDelta(body.lines[j])
          /\ j \in Range(calls)

\* C10: the tokens passed to the callback are the non-empty content
\* increments of the data lines read so far that precede the sentinel, one
\* call per line in the order of the lines; no line without the prefix is
\* the origin of a call; and a decode that returns without error has
\* delivered the increments of all data lines before the sentinel.
C10_TokensInOrder ==
    /\ fed = Expected(SubSeq(body.lines, 1, pos))
    /\ \A k \in 1..Len(calls) :
          /\ body.lines[calls[k]].pre = "data: "
          /\ fed[k] = body.lines[calls[k]].payload.choices[1]
          /\ k > 1 => calls[k - 1] < calls[k]
    /\ (dpc = "returned" /\ derr = "nil") => fed = Expected(body.lines)

\* C10 witness: a decode that returned without error at the sentinel, after
\* a line without the prefix that holds valid JSON content and a data line
\* whose token was delivered.
C10_Witness ==
    /\ dpc = "returned"
    /\ derr = "nil"
    /\ Len(fed) = 1
    /\ pos = 3
    /\ IsDone(body.lines[3])
    /\ \E i \in 1..2 :
          /\ body.lines[i].pre = ""
          /\ body.lines[i].payload.kind = "json"

\* C11: the last line of a body that ends without a line break is never the
\* origin of a call of the callback.
C11_PartialDiscarded == body.partial => Len(body.lines) \notin Range(calls)

\* The decoder has come to line i: it returned with the lines before i read,
\* and not at a sentinel.
StoppedBefore(i) ==
    /\ dpc = "returned"
    /\ pos = i - 1
    /\ pos = 0 \/ ~IsDone(body.lines[pos])

\* C12: a line longer than the scanner's limit is never read and neither it
\* nor a later line is the origin of a call; a decoder that has come to it
\* has returned an error with the content before it, and streamResponse
\* does not complete.
C12_OversizeLineFatal ==
    \A i \in 1..Len(body.lines) :
        body.lines[i].long =>
            /\ pos < i
            /\ \A k \in 1..Len(calls) : calls[k] < i
            /\ StoppedBefore(i) =>
                  /\ derr = "stream error"
                  /\ dret = fullContent
                  /\ pc # "done"

\* C12 witness: a token was delivered, the next line is too long and a valid
\* delta follows it in a body that ends normally; the decoder has returned
\* an error and streamResponse has failed.
C12_Witness ==
    /\ dpc = "returned"
    /\ pc = "failed"
    /\ derr = "stream error"
    /\ body.ending = "eof"
    /\ pos = 1
    /\ calls = <<1>>
    /\ Len(body.lines) = 3
    /\ body.lines[2].long
    /\ IsValidDelta(body.lines[3])

\* C13: once the source has failed with a read error no line is the origin
\* of a call any more, the decoder returns an error, and streamResponse
\* returns it with an empty reply and never completes.
C13_ReadErrorAborts ==
    scanErr = "read" =>
        /\ body.partial => Len(body.lines) \notin Range(calls)
        /\ dpc = "returned" => derr = "stream error"
        /\ pc # "done"
        /\ pc = "failed" => reply = << >>

\* ------------------------------------------------------- claims: session

\* C14: while a request is streaming or has failed, the history is the one
\* sendMessage was called with plus the user message, and nothing was handed
\* to the store; when sendMessage has returned after a failed or cancelled
\* request, history and store are as they were when it was called.
C14_FailureLeavesHistory ==
    /\ pc \in {"streaming", "failed"} =>
          /\ history = Append(atCall.history, userMsg)
          /\ persisted = atCall.persisted
    /\ (pc = "idle" /\ prev.ended \in {"failed", "cancelled"}) =>
          /\ history = atCall.history
          /\ persisted = atCall.persisted

\* C14 witness: the second request of a session with a store failed after a
\* part of the reply had been streamed, and sendMessage has returned.
C14_Witness ==
    /\ pc = "idle"
    /\ prev.ended = "failed"
    /\ requests = 2
    /\ store /\ sessionID # 0
    /\ Len(atCall.history) = 2
    /\ Len(persisted) = 1
    /\ fullResponse # << >>
    /\ Len(fullResponse) < Len(text)

\* C19: when streamResponse calls ChatStream, before the first chunk, the
\* mode is Normal, the flags are false, and fullResponse, buffer and
\* afterThinkingContent are empty, whatever the previous call left.
C19_FreshLexerState ==
    (pc = "streaming" /\ fed = << >>) =>
        /\ fullResponse = << >>
        /\ buffer = << >>
        /\ afterThinkingContent = << >>
        /\ ~inThinking
        /\ ~thinkingStarted
        /\ ~thinkingClosed
        /\ modes = <<"Normal">>

\* C19 witness: the second request of a session starts after a request that
\* failed inside an unclosed reasoning region.
C19_Witness ==
    /\ pc = "streaming"
    /\ fed = << >>
    /\ requests = 2
    /\ prev.ended = "failed"
    /\ prev.inThinking

\* ----------------------------------------------------------- claims: TUI

\* C15: when the TUI has taken a stream for ended, an assistant message it
\* appended and a batch it handed to the store belong to a stream ChatStream
\* ended without error, and their content is the whole reply.
C15_OnlyCompletedPersisted ==
    (sent > 0 /\ ~streaming /\ messages[Len(messages)].role = "assistant") =>
        /\ gerr = "nil"
        /\ messages[Len(messages)].content = text
        /\ written # << >> =>
              written[Len(written)].batch[2].content = text

\* --------------------------------------------------- claims: second pass

\* C16: the markdown formatter is not called while the stream is running,
\* and when a stream has completed without error with markdown rendering
\* on and a renderer at hand, it has been called exactly once.
C16_FormatterOnce ==
    /\ pc = "streaming" => mdCalls = << >>
    /\ (pc = "done" /\ renderMarkdown /\ mdRendererErr # "error") =>
          Len(mdCalls) = 1

C18_LexerNeverFails ==
    /\ derr \in {"nil", "stream error"}
    /\ (dpc = "returned" /\ calls # << >> /\ calls[Len(calls)] = pos) =>
          \/ pos = Len(body.lines)
          \/ body.lines[pos + 1].long

\* C18 witness: the callback was called in normal mode, inside a reasoning
\* region and past it, and decodeStream has returned without error.
C18_Witness ==
    /\ dpc = "returned"
    /\ derr = "nil"
    /\ Len(calls) = 3
    /\ fed[1] = OpenThink
    /\ fed[2] = CloseThink
    /\ modes = <<"Normal", "Reasoning", "Normal">>

\* C20: under every interleaving each of the two invocations holds the
\* state (fullResponse, afterThinkingContent, flags, writes and their
\* styles) that its own chunks alone produce from a new state.
C20_Isolated ==
    /\ Locals = RunCallback(NewStream(useColors), fed)
    /\ peer = RunCallback(NewStream(peer.useColors), peerFed)

\* C20 witness: both streams have ended after several chunks each, the
\* first past its reasoning region, the second inside one.
C20_Witness ==
    /\ Pending = << >>
    /\ PeerPending = << >>
    /\ Len(fed) = 3
    /\ Len(peerFed) = 3
    /\ thinkingClosed
    /\ peer.inThinking

\* ------------------------------------------- claims: buffer, sink, modes

\* The longest delimiter: </thinking>.
LongestDelimiter == Len(CloseThinking)

\* C21: the buffer kept between two calls of the callback never holds more
\* than the length of the longest delimiter minus one characters.
C21_BufferBounded == Len(buffer) <= LongestDelimiter - 1

RECURSIVE IsSubseq(_, _)
\* The characters of a occur in b in the same order.
IsSubseq(a, b) ==
    IF a = << >> THEN TRUE
    ELSE IF b = << >> THEN FALSE
    ELSE IF Head(a) = Head(b) THEN IsSubseq(Tail(a), Tail(b))
    ELSE IsSubseq(a, Tail(b))

\* C23: when the stream has ended every character of the reply has been
\* written to the sink: the reply can be read off the sink's text in order.
C23_NothingDropped == pc = "done" => IsSubseq(text, OutText(output))

\* C24: when the stream has ended no character of the reply has been
\* written to the sink twice: the sink's text can be read off the reply in
\* order.
C24_NothingDuplicated == pc = "done" => IsSubseq(OutText(output), text)

\* C25: with colours on, in the replies with one reasoning region the text
\* before the region ("x", "y") and after it ("b") is never written in the
\* reasoning style and the text inside it ("a") always is, however the reply
\* is cut into chunks.
C25_ClassifiedByMode ==
    (useColors /\ text \in {OneRegion, OneRegionAfterText}) =>
        \A i \in 1..Len(OutText(output)) :
            /\ OutText(output)[i] \in {"x", "y", "b"} =>
                  OutStyles(output)[i] # "Magenta"
            /\ OutText(output)[i] = "a" => OutStyles(output)[i] = "Magenta"

\* C26: a chunk with an open delimiter that arrives after the reasoning
\* region was closed puts the lexer into the reasoning mode again.
C26_ReopensAfterClose ==
    [][(/\ thinkingClosed
        /\ fed' # fed
        /\ MatchString(thinkTagPattern, fed'[Len(fed')])) => inThinking']_vars

\* The chunk the callback was called with in this step.
ThisChunk == fed'[Len(fed')]

AfterStart == Len(fullResponse) - Len(afterThinkingContent)

\* C29: before a close delimiter is matched afterThinkingContent is empty;
\* from then on it is the part of fullResponse that follows one close
\* delimiter, the same one for the rest of the stream.
C29_AfterFollowsClose ==
    /\ [](IF thinkingClosed
          THEN /\ afterThinkingContent = SliceFrom(fullResponse, AfterStart)
               /\ \E d \in Range(thinkClosePattern) :
                     /\ AfterStart >= Len(d)
                     /\ OccursAt(fullResponse, AfterStart - Len(d), d)
          ELSE afterThinkingContent = << >>)
    /\ [][(thinkingClosed /\ fed' # fed) => AfterStart' = AfterStart]_vars

\* C29 witness: a close delimiter was matched in the second chunk, text
\* followed it there and more text came in a third chunk.
C29_Witness ==
    /\ thinkingClosed
    /\ Len(fed) = 3
    /\ Len(afterThinkingContent) > Len(fed[3])
    /\ AfterStart > Len(fed[1])

\* C30: inThinking implies thinkingStarted; thinkingClosed implies
\* thinkingStarted and not inThinking; afterThinkingContent is non-empty only
\* if thinkingClosed; and thinkingClosed, once set, stays set while the
\* stream lasts.
C30_FlagsConsistent ==
    /\ [](/\ inThinking => thinkingStarted
          /\ thinkingClosed => (thinkingStarted /\ ~inThinking)
          /\ afterThinkingContent # << >> => thinkingClosed)
    /\ [][thinkingClosed => thinkingClosed']_vars

\* C30 witness: the stream has been in the reasoning mode, has left it at a
\* close delimiter and has delivered a chunk after that.
C30_Witness ==
    /\ thinkingClosed /\ thinkingStarted /\ ~inThinking
    /\ modes = <<"Normal", "Reasoning", "Normal">>
    /\ afterThinkingContent # << >>
    /\ Len(fed) = 3
    /\ AfterStart <= Len(fed[1]) + Len(fed[2])

\* C28: when /load has failed, for a missing or malformed id, without a
\* store or on an error of the store, history and sessionID are what they
\* were when the command was entered.
C28_FailedLoadKeeps ==
    (pc = "idle" /\ prev.ended = "load failed") =>
        /\ history = atCall.history
        /\ sessionID = atCall.sessionID

\* C28 witness: a /load of a session that does not exist has failed in a
\* session that has a store, an id and an exchange in its history.
C28_Witness ==
    /\ pc = "idle"
    /\ prev.ended = "load failed"
    /\ store /\ sessionID # 0
    /\ Len(history) = 2

\* ---------------------------------------------------- claims: the cache

\* The last call of Chat repeated a request of an earlier successful call
\* whose entry has not been evicted.
RepeatsEarlier ==
    /\ last.kind = "named"
    /\ last.prior.known
    /\ ~last.prior.evicted

\* The last call returned the response of the earlier call and issued no
\* HTTP request.
ServedFromCache ==
    /\ last.err = "nil"
    /\ last.response = last.prior.response
    /\ ~last.http

\* A call that failed has left the entries of the cache as they were.
FailureAddsNothing ==
    (last.kind # "none" /\ last.err # "nil") => ~last.changed

CalledWith(k) == TokenOf(body.lines[calls[k]])

\* C31: a token the callback returned an error for is the last token the
\* callback was called with and its line the last line read; decodeStream
\* has returned the error of the callback together with all tokens the
\* callback was called with, that token included.
C31_CallbackErrorStops ==
    \A k \in 1..Len(calls) :
        CalledWith(k) \in rejects =>
            /\ k = Len(calls)
            /\ pos = calls[k]
            /\ dpc = "returned"
            /\ derr = "callback error"
            /\ dret = Flatten([j \in 1..Len(calls) |-> CalledWith(j)])

\* C31 witness: the callback accepted a token and rejected the next one,
\* and the body has lines after that.
C31_Witness ==
    /\ Len(calls) = 2
    /\ CalledWith(1) \notin rejects
    /\ CalledWith(2) \in rejects
    /\ pos < Len(body.lines)
    /\ dpc = "returned"

\* ----------------------------------------------- claims: buffered decoder

\* The body ends with the sentinel or with a clean end of the input: a
\* sentinel comes before any line that is too long, or there is no such
\* line and the source ends without error.
EndsClean ==
    \/ \E i \in 1..Len(body.lines) :
          /\ IsDone(body.lines[i])
          /\ \A j \in 1..i : ~body.lines[j].long
    \/ /\ body.ending = "eof"
       /\ \A j \in 1..Len(body.lines) : ~body.lines[j].long

\* C32: onChunk is never called with an empty string, and when both
\* decoders have returned from a body that ends cleanly, the strings passed
\* to onChunk concatenate to the same text as the tokens passed to the
\* callback of the unbuffered decoder.
C32_BufferedAgrees ==
    /\ \A k \in 1..Len(chunks) : chunks[k] # << >>
    /\ (EndsClean /\ bpc = "returned" /\ dpc = "returned") =>
          Flatten(chunks) = Flatten(fed)

\* C32 witness: three increments were delivered one by one by the unbuffered
\* decoder and in two strings by the buffered one, the first at the flush
\* threshold and the second at the end of the input.
C32_Witness ==
    /\ EndsClean
    /\ bpc = "returned" /\ dpc = "returned"
    /\ Len(fed) = 3
    /\ Len(chunks) = 2
    /\ Len(chunks[1]) = flushThreshold

\* The content increments the buffered decoder has decoded.
Decoded ==
    Flatten([i \in 1..bpos |->
                IF Outcome(body.lines[i]) = "token"
                THEN TokenOf(body.lines[i]) ELSE << >>])

\* C33: when the buffered decoder has returned after a read error, every
\* content increment it decoded has been passed to onChunk.
C33_FlushedBeforeError ==
    (bpc = "returned" /\ bscanErr = "read") => Flatten(chunks) = Decoded

\* ------------------------------------------------------ claims: TUI streams

\* C34: in the TUI at most one stream is in flight.  While streaming is true
\* a step neither calls sendMessage nor handles a command line; a stream is
\* started only when the goroutine of the stream before has exited and no
\* waitForChunk command is left; and streaming becomes false only in the
\* Update of a streamDoneMsg.
C34_OneStream ==
    [][/\ streaming => sent' = sent /\ loads' = loads
       /\ sent' # sent => gpc # "running" /\ ~waiting
       /\ (streaming /\ ~streaming') =>
              inbox # << >> /\ Head(inbox).type = "done"]_vars

\* The goroutine of a stream has exited and its streamDoneMsg awaits Update,
\* so streaming is still true, and the user may enter more lines.
C34_Witness ==
    /\ streaming
    /\ gpc = "exited"
    /\ inbox # << >>
    /\ Head(inbox).type = "done"
    /\ sent + loads < MaxRequests

\* C35: the pair of messages persistLastExchange writes after a stream is
\* the prompt that started the stream followed by an assistant message, and
\* it is written to the session the prompt was sent in, however the messages
\* of the load, session and store commands interleave with the stream.
C35_ExchangeOfTheStream ==
    \A k \in 1..Len(written) :
        /\ written[k].batch[1] = UserMessage(prompts[written[k].stream].prompt)
        /\ written[k].batch[2].role = "assistant"
        /\ written[k].sessionID = prompts[written[k].stream].sessionID

\* C36: whenever persistLastExchange calls AppendMessagesBatch, the model's
\* sessionID is not zero: it is the id of a session created or loaded in
\* this run, also when the stream has finished before the command that
\* creates the session has reported the id.
C36_PersistedToASession ==
    \A k \in 1..Len(written) :
        written[k].sessionID \in
            {SavedSession.id} \cup {NewSessionID(n) : n \in 1..sent}

\* C37: a stream that sendMessage has started ends for the model.  When
\* ChatStream returns, with or without an error, and the messages keep being
\* handled, streaming becomes false again and Enter is accepted.
C37_StreamEnds == streaming ~> AcceptsInput

\* A stream whose ChatStream call failed has ended for the model.
C37_Witness ==
    /\ sent >= 1
    /\ gpc = "exited"
    /\ gerr = "error"
    /\ ~streaming

\* ------------------------------------------------ claims: the rate limiter

\* The calls of Allow that returned true with a time stamp in the window of
\* windowSize that ends at time t.
GrantedInWindow(t) ==
    {i \in 1..Len(granted) :
        t - rlConfig.windowSize < granted[i] /\ granted[i] <= t}

\* C38: for every configuration and every interleaving of Allow, clean-up
\* runs and the passage of time, the calls of Allow that returned true with
\* a time stamp inside any trailing window of WindowSize are at most
\* MaxRequests.
C38_RateLimitBound ==
    \A t \in 0..rlNow : Cardinality(GrantedInWindow(t)) <= rlConfig.maxRequests

\* C39: GetStats always returns when it runs beside Allow, Reset or
\* performCleanup.  Whenever it is about to take the read lock a second
\* time, in GetRemainingTime, it can take it, or the writer that keeps it
\* from doing so can go on and release the lock.
C39_GetStatsReturns ==
    rlpc["GetStats"] = "calling" =>
        \/ CanRLock
        \/ \E p \in Writers :
              \/ rlpc[p] = "holding"
              \/ rlpc[p] = "pending" /\ mu.readers = 0

====
